---- MODULE Spec2Model ----
(***************************************************************************)
(* A model of the sherlock-discord-bot retrieval core:                     *)
(*   - RAGService.query          (src/src/rag_service.py)  : SpecQuery     *)
(*   - RAGService.add_documents  (src/src/rag_service.py)  : SpecIngest    *)
(*   - LRUCache                  (src/src/cache.py)        : SpecCache     *)
(*   - LRUCache under threads    (src/src/cache.py)        : SpecThreads   *)
(*   - RecursiveTokenSplitter    (src/scripts/ingest_docs.py) : SpecSplitter *)
(*   - extract_legal_metadata    (src/scripts/ingest_docs.py) : SpecMetadata *)
(*   - generate_completion_response (src/src/completion.py) : SpecCompletion *)
(*   - DatabaseService.connect   (src/src/database.py)     : SpecConnect   *)
(*   - LRUCache._hash_key        (src/src/cache.py)        : SpecKeys      *)
(*   - the fusion of RAGService.query on full legs         : SpecFusion    *)
(* The Postgres store, the embedding API and the clock are the environment *)
(* of the program: their answers are nondeterministic choices.             *)
(***************************************************************************)
EXTENDS Integers, Sequences, FiniteSets, TLC

VARIABLES
    documents,      \* the "documents" table: row i has id i, a content and a metadata object
    client,         \* EmbeddingService.client is configured
    pool,           \* db_service.pool: "none" or "open"
    q_pc,           \* position of the RAGService.query coroutine
    q_n,            \* n_results
    q_filter,       \* filter_metadata, in dict order: sequence of [key, value]
    q_attempt,      \* attempts made by the retrying get_embeddings
    filter_clause,  \* clauses built at lines 150-167: sequence of [key, idx]
    filter_params,  \* filter_params
    vector_rows,    \* rows of the semantic leg
    keyword_rows,   \* rows of the lexical leg
    q_ids,          \* ids of the documents behind q_result, in order
    q_result,       \* the list query returned
    q_outcome,      \* "none", "returned" or "raised"
    q_fail,         \* the failure point the environment chose, "none" if none
    a_pc,           \* position of the RAGService.add_documents coroutine
    a_docs,         \* documents: list of contents
    a_metas,        \* metadatas: list of metadata objects
    a_attempt,      \* attempts made by the retrying get_embeddings
    a_records,      \* records built at lines 78-91
    tx_rows,        \* rows written inside the open transaction, not yet committed
    a_ret,          \* the value add_documents returned
    a_outcome,      \* "none", "returned" or "raised"
    a_fail,         \* the failure point the environment chose, "none" if none
    a_before,       \* the table when add_documents was called
    max_size,       \* LRUCache.max_size
    ttl_seconds,    \* LRUCache.ttl_seconds
    cache,          \* LRUCache._cache: the OrderedDict, oldest first
    stats,          \* LRUCache._stats
    now,            \* time.time()
    calls,          \* get and set calls made so far
    c_last,         \* the last call: its operation, its lookup, what it returned (<<>> is
                    \* None, <<v>> the value v) and the exception it raised, if any
    live,           \* history: the lookups set and not since overwritten, evicted, expired or
                    \* cleared, each with the value and time of its set, by last set or hit
    lock,           \* LRUCache._lock: 0 when free, else the thread holding it
    th,             \* per thread: where it is inside its cache call, and its locals
    ser,            \* history: the cache, counters and last result had every call so far
                    \* run alone, in the order the calls released the lock
    sp_state,       \* RecursiveTokenSplitter: "none", "constructed" or "raised"
    chunk_size,     \* RecursiveTokenSplitter.chunk_size
    chunk_overlap,  \* RecursiveTokenSplitter.chunk_overlap
    tokenizer,      \* RecursiveTokenSplitter.tokenizer: the pairs of characters its
                    \* vocabulary merges into one token
    sp_text,        \* the text of the last split_text call
    sp_chunks,      \* what that call returned
    sp_args,        \* the chunk_size and chunk_overlap the constructor was called with
    sp_returned,    \* split_text has returned
    md_filename,    \* the filename extract_legal_metadata was called with
    md_meta,        \* the mapping it returned: a key that is absent holds <<>>
    md_returned,    \* extract_legal_metadata has returned
    co,             \* per caller of generate_completion_response: where it is, its
                    \* arguments and what it returned
    co_n,           \* completions the model has produced so far
    co_sets,        \* history: the response_cache.set calls that returned, in order
    cn,             \* per caller of DatabaseService.connect: where it is and how it ended
    connect_lock,   \* DatabaseService._connect_lock: 0 when free, else the caller holding it
    cn_created,     \* history: asyncpg.create_pool calls that returned a pool
    cn_attempts,    \* history: asyncpg.create_pool calls made
    cn_calls,       \* connect calls made so far
    kx              \* two conversations on one cache: the lookup a value was set
                    \* under, the lookup get was then called with, and how far it got

q_vars == <<q_pc, q_n, q_filter, q_attempt, filter_clause, filter_params,
            vector_rows, keyword_rows, q_ids, q_result, q_outcome, q_fail>>

a_vars == <<a_pc, a_docs, a_metas, a_attempt, a_records, tx_rows, a_ret, a_outcome,
            a_fail, a_before>>

db_vars == <<documents, client, pool>>

c_vars == <<max_size, ttl_seconds, cache, stats, now, calls, c_last, live>>

th_vars == <<lock, th, ser>>

sp_vars == <<sp_state, chunk_size, chunk_overlap, tokenizer, sp_text, sp_chunks, sp_args,
             sp_returned>>

md_vars == <<md_filename, md_meta, md_returned>>

co_vars == <<co, co_n, co_sets>>

cn_vars == <<cn, connect_lock, cn_created, cn_attempts, cn_calls>>

vars == <<db_vars, q_vars, a_vars, c_vars, th_vars, sp_vars, md_vars, co_vars, cn_vars, kx>>

not_query == <<a_vars, c_vars, th_vars, sp_vars, md_vars, co_vars, cn_vars, kx>>

not_ingest == <<q_vars, c_vars, th_vars, sp_vars, md_vars, co_vars, cn_vars, kx>>

not_cache == <<db_vars, q_vars, a_vars, th_vars, sp_vars, md_vars, co_vars, cn_vars, kx>>

not_threads == <<db_vars, q_vars, a_vars, sp_vars, md_vars, co_vars, cn_vars, kx>>

not_splitter == <<db_vars, q_vars, a_vars, c_vars, th_vars, md_vars, co_vars, cn_vars, kx>>

not_completion == <<db_vars, q_vars, a_vars, sp_vars, md_vars, cn_vars, kx>>

not_connect == <<q_vars, a_vars, c_vars, th_vars, sp_vars, md_vars, co_vars, kx>>

not_keys == <<db_vars, q_vars, a_vars, th_vars, sp_vars, md_vars, co_vars, cn_vars>>

not_metadata == <<db_vars, q_vars, a_vars, c_vars, th_vars, sp_vars, co_vars, cn_vars, kx>>

(***************************************************************************)
(* Bounds of the model                                                     *)
(***************************************************************************)
MaxDocs == 3

MaxN == 3

MaxBatch == 2

MaxSize == 2

MaxTime == 2

MaxCalls == 4

MaxThreadCalls == 3

MaxChunk == 3

MaxTextLen == 4

MaxPieces == 2

MaxConnects == 4

MaxShared == 2

(***************************************************************************)
(* Program constants                                                       *)
(***************************************************************************)
RRF_K == 60

EMBED_ATTEMPTS == 3

HASHED_TURNS == 5

DEFAULT_MAX_SIZE == 100

DEFAULT_TTL_SECONDS == 3600

Min(a, b) == IF a < b THEN a ELSE b

Range(s) == {s[i] : i \in 1..Len(s)}

(***************************************************************************)
(* Strings are sequences of characters, so that str.replace and            *)
(* str.isalnum are computed as Python computes them.                       *)
(***************************************************************************)
AlnumChars == {"a", "b", "n", "o", "r", "t", "y", "1"}

RemoveChar(s, ch) == SelectSeq(s, LAMBDA c : c # ch)

IsAlnum(s) == Len(s) > 0 /\ \A i \in 1..Len(s) : s[i] \in AlnumChars

\* line 159: key.replace("_", "").isalnum()
KeyAccepted(key) == IsAlnum(RemoveChar(key, "_"))

K_ty == <<"t", "y">>

K_n_o == <<"n", "_", "o">>

K_under == <<"_">>

K_quote == <<"o", "'", "r">>

FilterKeys == {K_ty, K_n_o, K_under, K_quote}

FilterValues == {"A", "B"}

FilterPairs == [key : FilterKeys, value : FilterValues]

\* filter_metadata: None/{} or a dict of one or two entries (dict keys are distinct)
Filters ==
    {<<>>} \cup {<<p>> : p \in FilterPairs}
           \cup {s \in FilterPairs \X FilterPairs : s[1].key # s[2].key}

(***************************************************************************)
(* The corpus the store may hold                                           *)
(***************************************************************************)
Metadatas ==
    <<(K_ty :> "A"), (K_ty :> "B" @@ K_n_o :> "A"), (K_ty :> "A" @@ K_n_o :> "B")>>

Contents == <<"p", "q">>

\* the i-th document of the corpus; two documents may carry the same content
CorpusDoc(i) ==
    [content |-> Contents[((i - 1) % Len(Contents)) + 1],
     metadata |-> Metadatas[((i - 1) % Len(Metadatas)) + 1]]


(***************************************************************************)
(* RAGService.query, lines 150-167: the metadata filter clause             *)
(***************************************************************************)
\* a builder that counts a skipped key's placeholder
RECURSIVE BuildFilterFromMisaligned(_, _, _, _, _)
BuildFilterFromMisaligned(F, i, current_idx, clauses, params) ==
    IF i > Len(F) THEN [clauses |-> clauses, params |-> params]
    ELSE IF ~KeyAccepted(F[i].key)
         THEN BuildFilterFromMisaligned(F, i + 1, current_idx + 1, clauses, params)
         ELSE BuildFilterFromMisaligned(F, i + 1, current_idx + 1,
                              Append(clauses, [key |-> F[i].key, idx |-> current_idx]),
                              Append(params, F[i].value))

RECURSIVE BuildFilterFrom(_, _, _, _, _)
BuildFilterFrom(F, i, current_idx, clauses, params) ==
    IF i > Len(F) THEN [clauses |-> clauses, params |-> params]
    ELSE IF ~KeyAccepted(F[i].key)
         THEN BuildFilterFrom(F, i + 1, current_idx, clauses, params)
         ELSE BuildFilterFrom(F, i + 1, current_idx + 1,
                              Append(clauses, [key |-> F[i].key, idx |-> current_idx]),
                              Append(params, F[i].value))

\* current_idx starts at 3: $1 and $2 are the query and the limit
BuildFilter(F) == BuildFilterFrom(F, 1, 3, <<>>, <<>>)

(***************************************************************************)
(* The two SELECTs, lines 172-197, as Postgres evaluates them.  args is    *)
(* [x, n_results * 2] + filter_params; a clause metadata->>'key' = $idx    *)
(* compares the text of metadata's key with args[idx].                     *)
(***************************************************************************)
QueryArgs(params) == <<"$1", "$2">> \o params

\* the statement parses and every placeholder has an argument
SqlValid(clauses, args) ==
    \A j \in 1..Len(clauses) :
        /\ clauses[j].idx \in 3..Len(args)
        /\ "'" \notin Range(clauses[j].key)

ClauseHolds(metadata, clause, args) ==
    /\ clause.key \in DOMAIN metadata
    /\ metadata[clause.key] = args[clause.idx]

MatchingIds(table, clauses, args) ==
    {i \in 1..Len(table) :
        \A j \in 1..Len(clauses) : ClauseHolds(table[i].metadata, clauses[j], args)}

InjSeqs(S, k) == {s \in [1..k -> S] : \A i, j \in 1..k : i # j => s[i] # s[j]}

RowsOf(table, ids) == [i \in 1..Len(ids) |-> [id |-> ids[i], content |-> table[ids[i]].content]]

\* ORDER BY embedding <=> $1 LIMIT $2: every matching row is ranked, in an
\* order only the embeddings decide
VectorOutcomes(table, clauses, args, limit) ==
    LET M == MatchingIds(table, clauses, args)
    IN  {RowsOf(table, s) : s \in InjSeqs(M, Min(limit, Cardinality(M)))}

\* a lexical leg whose statement leaves the filter clause out
KeywordOutcomesUnfiltered(table, clauses, args, limit) ==
    LET M == 1..Len(table)
    IN  UNION {{RowsOf(table, s) : s \in InjSeqs(M, k)} : k \in 0..Min(limit, Cardinality(M))}

\* WHERE content_search @@ websearch_to_tsquery(..) ORDER BY ts_rank DESC LIMIT $2:
\* only the matching rows the text search also matches
KeywordOutcomes(table, clauses, args, limit) ==
    LET M == MatchingIds(table, clauses, args)
    IN  UNION {{RowsOf(table, s) : s \in InjSeqs(M, k)} : k \in 0..Min(limit, Cardinality(M))}

(***************************************************************************)
(* Reciprocal Rank Fusion, lines 199-222.  scores is the dict, in          *)
(* insertion order; a score is the exact fraction num/den.                 *)
(***************************************************************************)
IndexOfId(scores, id) ==
    IF \E i \in 1..Len(scores) : scores[i].id = id
    THEN CHOOSE i \in 1..Len(scores) : scores[i].id = id
    ELSE 0

\* a fusion in which the lexical leg adds nothing to a candidate the semantic
\* leg already scored
AddScoreFirstLegOnly(scores, row, rank) ==
    IF IndexOfId(scores, row.id) # 0 THEN scores
    ELSE Append(scores, [id |-> row.id, content |-> row.content,
                         num |-> 1, den |-> RRF_K + rank + 1])

\* scores[doc_id]["score"] += 1 / (k + rank + 1), rank 0-based
AddScore(scores, row, rank) ==
    LET at == IndexOfId(scores, row.id)
        base == IF at = 0
                THEN Append(scores, [id |-> row.id, content |-> row.content, num |-> 0, den |-> 1])
                ELSE scores
        pos == IF at = 0 THEN Len(base) ELSE at
        d == RRF_K + rank + 1
    IN  [base EXCEPT ![pos] = [@ EXCEPT !.num = @ * d + base[pos].den, !.den = @ * d]]

\* for rank, row in enumerate(rows), rows lo..hi: the dict is updated in place,
\* one row after the other.  The loop is evaluated by halves (first the rows
\* lo..mid, then the rows mid+1..hi on the dict the first half left), which
\* gives the same dict as the row-by-row loop and keeps the evaluation shallow.
RECURSIVE ProcessRange(_, _, _, _)
ProcessRange(scores, rows, lo, hi) ==
    IF lo > hi THEN scores
    ELSE IF lo = hi THEN AddScore(scores, rows[lo], lo - 1)
    ELSE LET mid == (lo + hi) \div 2
             first == ProcessRange(scores, rows, lo, mid)
         IN  IF Len(first) = 0 THEN first ELSE ProcessRange(first, rows, mid + 1, hi)

ProcessRows(scores, rows, i) == ProcessRange(scores, rows, i, Len(rows))

ScoreGE(a, b) == a.num * b.den >= b.num * a.den

\* a sort without reverse=True
InsertByScoreAscending(sorted, e) ==
    LET k == Cardinality({i \in 1..Len(sorted) : ScoreGE(e, sorted[i])})
    IN  SubSeq(sorted, 1, k) \o <<e>> \o SubSeq(sorted, k + 1, Len(sorted))

\* a descending sort that puts a later entry before the entries of equal score
InsertByScoreUnstable(sorted, e) ==
    LET k == Cardinality({i \in 1..Len(sorted) : ScoreGE(sorted[i], e) /\ ~ScoreGE(e, sorted[i])})
    IN  SubSeq(sorted, 1, k) \o <<e>> \o SubSeq(sorted, k + 1, Len(sorted))

\* sorted(..., reverse=True) is stable: equal scores keep their dict order
InsertByScore(sorted, e) ==
    LET k == Cardinality({i \in 1..Len(sorted) : ScoreGE(sorted[i], e)})
    IN  SubSeq(sorted, 1, k) \o <<e>> \o SubSeq(sorted, k + 1, Len(sorted))

\* the entries lo..hi of the dict inserted in dict order, by halves as above
RECURSIVE SortRange(_, _, _, _)
SortRange(sorted, s, lo, hi) ==
    IF lo > hi THEN sorted
    ELSE IF lo = hi THEN InsertByScore(sorted, s[lo])
    ELSE LET mid == (lo + hi) \div 2
             first == SortRange(sorted, s, lo, mid)
         IN  IF Len(first) = 0 THEN first ELSE SortRange(first, s, mid + 1, hi)

SortedByScore(s) == SortRange(<<>>, s, 1, Len(s))

Fuse(vrows, krows, n_results) ==
    LET scores == ProcessRows(ProcessRows(<<>>, vrows, 1), krows, 1)
        sorted_docs == SortedByScore(scores)
    IN  SubSeq(sorted_docs, 1, Min(n_results, Len(sorted_docs)))

\* a handler that falls back to what the semantic leg already fetched
QueryExceptSemanticOnly ==
    [outcome |-> "returned",
     result |-> [i \in 1..Len(vector_rows) |-> vector_rows[i].content]]

\* lines 224-228: except Exception: log and return []
QueryExcept == [outcome |-> "returned", result |-> <<>>]

(***************************************************************************)
(* LRUCache._hash_key, cache.py lines 51-77.  The digest is taken of the    *)
(* string content; SHA-256 is modelled as injective, so the key is content *)
(* itself, built character by character as the f-strings build it.         *)
(***************************************************************************)
Digit(d) == <<"0", "1", "2", "3", "4", "5", "6", "7", "8", "9">>[d + 1]

\* str(n) of a non-negative int
RECURSIVE FormatInt(_)
FormatInt(n) == IF n < 10 THEN <<Digit(n)>> ELSE FormatInt(n \div 10) \o <<Digit(n % 10)>>

\* str(x) of a float with one decimal, given in tenths: 7 is 0.7, 10 is 1.0
FormatFloat(tenths) == FormatInt(tenths \div 10) \o <<".">> \o <<Digit(tenths % 10)>>

\* messages[-5:] if len(messages) > 5 else messages
\* a key made of every turn of the conversation
RecentMessagesAll(messages) == messages

\* line 64: messages[-5:] if len(messages) > 5 else messages
RecentMessages(messages) ==
    IF Len(messages) > HASHED_TURNS
    THEN SubSeq(messages, Len(messages) - HASHED_TURNS + 1, Len(messages))
    ELSE messages

\* "|".join(f"{user}:{text}" for each recent message)
RECURSIVE ConvoStr(_)
ConvoStr(msgs) ==
    IF msgs = <<>> THEN <<>>
    ELSE LET part == msgs[1].user \o <<":">> \o msgs[1].text
         IN  IF Len(msgs) = 1 THEN part ELSE part \o <<"|">> \o ConvoStr(Tail(msgs))

\* a key that leaves the temperature out
HashKeyNoTemperature(messages, model, temperature, max_tokens) ==
    model \o <<":">> \o FormatInt(max_tokens) \o <<":">> \o ConvoStr(RecentMessages(messages))

\* f"{model}:{temperature}:{max_tokens}:{convo_str}"
HashKey(messages, model, temperature, max_tokens) ==
    model \o <<":">> \o FormatFloat(temperature) \o <<":">> \o FormatInt(max_tokens)
          \o <<":">> \o ConvoStr(RecentMessages(messages))

KeyOf(L) == HashKey(L.messages, L.model, L.temperature, L.max_tokens)

(***************************************************************************)
(* The lookups and values the callers use                                  *)
(***************************************************************************)
Msgs1 == <<[user |-> <<"u">>, text |-> <<"h", "i">>]>>

Model4 == <<"g", "4">>

Model3 == <<"g", "3">>

Lookups ==
    { [messages |-> Msgs1, model |-> Model4, temperature |-> 10, max_tokens |-> 512],
      [messages |-> Msgs1, model |-> Model3, temperature |-> 10, max_tokens |-> 512],
      [messages |-> Msgs1, model |-> Model4, temperature |-> 7, max_tokens |-> 512],
      [messages |-> Msgs1, model |-> Model4, temperature |-> 10, max_tokens |-> 1024] }

\* the lookup of a call that takes none
NoLookup == [messages |-> <<>>, model |-> <<>>, temperature |-> 0, max_tokens |-> 0]

\* the response stored by the n-th call: every generation yields its own value
Values == 1..MaxCalls

\* the ttl_seconds the cache is built with: 0 as in test_ttl_expiration, or 1
Ttls == {0, 1}

(***************************************************************************)
(* LRUCache, cache.py lines 36-151.  Every method body runs under          *)
(* self._lock, so each call is one action.                                 *)
(***************************************************************************)
\* __init__, lines 44-49
CacheNew(size, ttl) ==
    /\ max_size = size
    /\ ttl_seconds = ttl
    /\ cache = <<>>
    /\ stats = [hits |-> 0, misses |-> 0, evictions |-> 0, expirations |-> 0]
    /\ now = 0
    /\ calls = 0
    /\ c_last = [op |-> "none", lookup |-> NoLookup, ret |-> <<>>, raised |-> ""]
    /\ live = <<>>

\* position of key in the OrderedDict, 0 if absent
IndexOfKey(c, key) ==
    IF \E i \in 1..Len(c) : c[i].key = key
    THEN CHOOSE i \in 1..Len(c) : c[i].key = key
    ELSE 0

\* a get that leaves the order alone
MoveToEndNoop(c, i) == c

RemoveAt(c, i) == SubSeq(c, 1, i - 1) \o SubSeq(c, i + 1, Len(c))

\* a move_to_end that appends the entry and leaves its old place in the dict
MoveToEndKeepingOld(c, i) == Append(c, c[i])

\* OrderedDict.move_to_end(key)
MoveToEnd(c, i) == Append(RemoveAt(c, i), c[i])

\* a get that never checks the age
ExpiredNever(entry, t, ttl) == FALSE

\* an entry whose age equals the TTL counted as expired
ExpiredAtTtl(entry, t, ttl) == t - entry.created_at >= ttl

\* line 92: time.time() - entry.created_at > self.ttl_seconds
Expired(entry, t, ttl) == t - entry.created_at > ttl

\* an entry stamped with the time the cache was built
NewEntryAtEpoch(key, value, t, L) ==
    [key |-> key, value |-> value, created_at |-> 0, hits |-> 0, by |-> L]

\* CacheEntry(value=value): created_at is time.time(), hits is 0; by records
\* the lookup that stored the entry
NewEntry(key, value, t, L) ==
    [key |-> key, value |-> value, created_at |-> t, hits |-> 0, by |-> L]

\* a capacity check that is late by one
AtCapacityOffByOne(c, size) == Len(c) > size

\* line 125: len(self._cache) >= self.max_size
AtCapacity(c, size) == Len(c) >= size

\* the live list without the lookups Ls
Forgotten(l, Ls) == SelectSeq(l, LAMBDA x : x.lookup \notin Ls)

\* the live list after lookup L was set to value v at time t: L is now the most
\* recently used
Stored(l, L, v, t) == Append(Forgotten(l, {L}), [lookup |-> L, value |-> v, set_at |-> t])

\* the live list after lookup L was hit: L is now the most recently used
Touched(l, L) == Forgotten(l, {L}) \o SelectSeq(l, LAMBDA x : x.lookup = L)

\* get, lines 79-104
Get(L) ==
    /\ calls < MaxCalls
    /\ calls' = calls + 1
    /\ LET key == KeyOf(L)
           i == IndexOfKey(cache, key)
       IN  IF i = 0
           THEN /\ stats' = [stats EXCEPT !.misses = @ + 1]
                /\ c_last' = [op |-> "get", lookup |-> L, ret |-> <<>>, raised |-> ""]
                /\ UNCHANGED <<cache, live>>
           ELSE IF Expired(cache[i], now, ttl_seconds)
           THEN /\ cache' = RemoveAt(cache, i)
                /\ stats' = [stats EXCEPT !.misses = @ + 1, !.expirations = @ + 1]
                /\ c_last' = [op |-> "get", lookup |-> L, ret |-> <<>>, raised |-> ""]
                /\ live' = Forgotten(live, {cache[i].by})
           ELSE /\ cache' = MoveToEnd([cache EXCEPT ![i].hits = @ + 1], i)
                /\ stats' = [stats EXCEPT !.hits = @ + 1]
                /\ c_last' = [op |-> "get", lookup |-> L, ret |-> <<cache[i].value>>, raised |-> ""]
                /\ live' = Touched(live, cache[i].by)
    /\ UNCHANGED <<max_size, ttl_seconds, now>>
    /\ UNCHANGED not_cache

\* set, lines 106-131
Set(L, v) ==
    /\ calls < MaxCalls
    /\ calls' = calls + 1
    /\ LET key == KeyOf(L)
           i == IndexOfKey(cache, key)
       IN  IF i # 0
           THEN /\ cache' = MoveToEnd([cache EXCEPT ![i] = NewEntry(key, v, now, L)], i)
                /\ live' = Stored(Forgotten(live, {cache[i].by}), L, v, now)
                /\ c_last' = [op |-> "set", lookup |-> L, ret |-> <<>>, raised |-> ""]
                /\ UNCHANGED stats
           ELSE IF AtCapacity(cache, max_size)
           THEN IF cache = <<>>
                THEN \* popitem on an empty OrderedDict raises KeyError
                     /\ c_last' = [op |-> "set", lookup |-> L, ret |-> <<>>, raised |-> "KeyError"]
                     /\ UNCHANGED <<cache, stats, live>>
                ELSE /\ cache' = Append(Tail(cache), NewEntry(key, v, now, L))
                     /\ stats' = [stats EXCEPT !.evictions = @ + 1]
                     /\ live' = Stored(Forgotten(live, {cache[1].by}), L, v, now)
                     /\ c_last' = [op |-> "set", lookup |-> L, ret |-> <<>>, raised |-> ""]
           ELSE /\ cache' = Append(cache, NewEntry(key, v, now, L))
                /\ live' = Stored(live, L, v, now)
                /\ c_last' = [op |-> "set", lookup |-> L, ret |-> <<>>, raised |-> ""]
                /\ UNCHANGED stats
    /\ UNCHANGED <<max_size, ttl_seconds, now>>
    /\ UNCHANGED not_cache

\* clear, lines 133-137
Clear ==
    /\ cache' = <<>>
    /\ live' = <<>>
    /\ c_last' = [op |-> "clear", lookup |-> NoLookup, ret |-> <<>>, raised |-> ""]
    /\ UNCHANGED <<max_size, ttl_seconds, stats, now, calls>>
    /\ UNCHANGED not_cache

\* the stats property, lines 139-151 (hit_rate, a string derived from hits and
\* misses, is left out)
StatsView ==
    [hits |-> stats.hits, misses |-> stats.misses, evictions |-> stats.evictions,
     expirations |-> stats.expirations, size |-> Len(cache), max_size |-> max_size,
     ttl_seconds |-> ttl_seconds]

\* the clock advances between two calls
Tick ==
    /\ now < MaxTime
    /\ now' = now + 1
    /\ UNCHANGED <<max_size, ttl_seconds, cache, stats, calls, c_last, live>>
    /\ UNCHANGED not_cache


(***************************************************************************)
(* LRUCache called from several threads, cache.py lines 79-151.  A call    *)
(* enters "with self._lock", runs its statements one at a time and leaves; *)
(* a counter's += 1 is a load followed by a store.                         *)
(***************************************************************************)
Threads == {1, 2}

ThreadLookups ==
    { [messages |-> Msgs1, model |-> Model4, temperature |-> 10, max_tokens |-> 512],
      [messages |-> Msgs1, model |-> Model4, temperature |-> 7, max_tokens |-> 512] }

ThreadIdle ==
    [pc |-> "idle", op |-> "none", lookup |-> NoLookup, value |-> 0, reg |-> 0,
     todo |-> <<>>, after |-> "idle", ret |-> <<>>, raised |-> "", tnow |-> 0]

ThreadsIdle ==
    /\ lock = 0
    /\ th = [t \in Threads |-> ThreadIdle]
    /\ ser = [cache |-> <<>>,
              stats |-> [hits |-> 0, misses |-> 0, evictions |-> 0, expirations |-> 0],
              ret |-> <<>>, raised |-> ""]

\* a lock any thread may enter at any time
LockAlwaysFree == TRUE

\* threading.Lock: acquire blocks while another thread holds the lock
LockFree == lock = 0

\* the stats property of a cache c with counters st
StatsOf(c, st) ==
    [hits |-> st.hits, misses |-> st.misses, evictions |-> st.evictions,
     expirations |-> st.expirations, size |-> Len(c), max_size |-> max_size,
     ttl_seconds |-> ttl_seconds]

\* get, set, clear and stats as one step each on cache and counters s, the
\* clock reading t
GetOn(s, L, t) ==
    LET i == IndexOfKey(s.cache, KeyOf(L))
    IN  IF i = 0
        THEN [s EXCEPT !.stats.misses = @ + 1, !.ret = <<>>, !.raised = ""]
        ELSE IF Expired(s.cache[i], t, ttl_seconds)
        THEN [s EXCEPT !.cache = RemoveAt(s.cache, i), !.stats.misses = @ + 1,
                       !.stats.expirations = @ + 1, !.ret = <<>>, !.raised = ""]
        ELSE [s EXCEPT !.cache = MoveToEnd([s.cache EXCEPT ![i].hits = @ + 1], i),
                       !.stats.hits = @ + 1, !.ret = <<s.cache[i].value>>, !.raised = ""]

SetOn(s, L, v, t) ==
    LET key == KeyOf(L)
        i == IndexOfKey(s.cache, key)
    IN  IF i # 0
        THEN [s EXCEPT !.cache = MoveToEnd([s.cache EXCEPT ![i] = NewEntry(key, v, t, L)], i),
                       !.ret = <<>>, !.raised = ""]
        ELSE IF AtCapacity(s.cache, max_size)
        THEN IF s.cache = <<>>
             THEN [s EXCEPT !.ret = <<>>, !.raised = "KeyError"]
             ELSE [s EXCEPT !.cache = Append(Tail(s.cache), NewEntry(key, v, t, L)),
                            !.stats.evictions = @ + 1, !.ret = <<>>, !.raised = ""]
        ELSE [s EXCEPT !.cache = Append(s.cache, NewEntry(key, v, t, L)),
                       !.ret = <<>>, !.raised = ""]

ClearOn(s) == [s EXCEPT !.cache = <<>>, !.ret = <<>>, !.raised = ""]

StatsOn(s) == [s EXCEPT !.ret = <<StatsOf(s.cache, s.stats)>>, !.raised = ""]

CallOn(s, c) ==
    CASE c.op = "get" -> GetOn(s, c.lookup, c.tnow)
      [] c.op = "set" -> SetOn(s, c.lookup, c.value, c.tnow)
      [] c.op = "clear" -> ClearOn(s)
      [] c.op = "stats" -> StatsOn(s)

\* the first statement of each method inside the lock
FirstPc(op) ==
    CASE op = "get" -> "get_lookup"
      [] op = "set" -> "set_lookup"
      [] op = "clear" -> "clear"
      [] op = "stats" -> "stats"

ThreadFrame ==
    /\ UNCHANGED <<max_size, ttl_seconds, live>>
    /\ UNCHANGED not_threads

\* with self._lock: of a get, set, clear or stats call (lines 84, 116, 135, 142)
ThAcquire(t, op, L) ==
    /\ th[t].pc = "idle"
    /\ calls < MaxThreadCalls
    /\ LockFree
    /\ lock' = t
    /\ calls' = calls + 1
    /\ th' = [th EXCEPT ![t] = [ThreadIdle EXCEPT !.pc = FirstPc(op), !.op = op,
                                   !.lookup = L, !.value = calls + 1]]
    /\ UNCHANGED <<cache, stats, now, c_last, ser>>
    /\ ThreadFrame

\* get, line 85: entry = self._cache.get(key); lines 87-89 on None
ThGetLookup(t) ==
    /\ th[t].pc = "get_lookup"
    /\ IF IndexOfKey(cache, KeyOf(th[t].lookup)) = 0
       THEN th' = [th EXCEPT ![t].pc = "count", ![t].todo = <<"misses">>,
                             ![t].after = "release", ![t].ret = <<>>]
       ELSE th' = [th EXCEPT ![t].pc = "get_ttl"]
    /\ UNCHANGED <<cache, stats, now, calls, c_last, lock, ser>>
    /\ ThreadFrame

\* get, lines 92-104: the age test, then either del or move_to_end and
\* entry.hits += 1; the counters follow
ThGetTtl(t) ==
    /\ th[t].pc = "get_ttl"
    /\ LET i == IndexOfKey(cache, KeyOf(th[t].lookup))
       IN  IF i = 0
           THEN \* del or move_to_end of a key that is gone raises KeyError
                /\ th' = [th EXCEPT ![t].pc = "release", ![t].raised = "KeyError",
                                    ![t].tnow = now]
                /\ UNCHANGED cache
           ELSE IF Expired(cache[i], now, ttl_seconds)
           THEN /\ cache' = RemoveAt(cache, i)
                /\ th' = [th EXCEPT ![t].pc = "count", ![t].todo = <<"misses", "expirations">>,
                                    ![t].after = "release", ![t].ret = <<>>, ![t].tnow = now]
           ELSE /\ cache' = MoveToEnd([cache EXCEPT ![i].hits = @ + 1], i)
                /\ th' = [th EXCEPT ![t].pc = "count", ![t].todo = <<"hits">>,
                                    ![t].after = "release", ![t].ret = <<cache[i].value>>,
                                    ![t].tnow = now]
    /\ UNCHANGED <<stats, now, calls, c_last, lock, ser>>
    /\ ThreadFrame

\* self._stats[name] += 1, first half: load the counter
ThLoad(t) ==
    /\ th[t].pc = "count"
    /\ th' = [th EXCEPT ![t].pc = "store", ![t].reg = stats[th[t].todo[1]]]
    /\ UNCHANGED <<cache, stats, now, calls, c_last, lock, ser>>
    /\ ThreadFrame

\* self._stats[name] += 1, second half: store the counter
ThStore(t) ==
    /\ th[t].pc = "store"
    /\ stats' = [stats EXCEPT ![th[t].todo[1]] = th[t].reg + 1]
    /\ th' = [th EXCEPT ![t].pc = IF Len(th[t].todo) = 1 THEN th[t].after ELSE "count",
                        ![t].todo = Tail(th[t].todo)]
    /\ UNCHANGED <<cache, now, calls, c_last, lock, ser>>
    /\ ThreadFrame

\* set, lines 117-122: the key is present
ThSetLookup(t) ==
    /\ th[t].pc = "set_lookup"
    /\ LET key == KeyOf(th[t].lookup)
           i == IndexOfKey(cache, key)
       IN  IF i # 0
           THEN /\ cache' = MoveToEnd([cache EXCEPT ![i] = NewEntry(key, th[t].value, now,
                                                                   th[t].lookup)], i)
                /\ th' = [th EXCEPT ![t].pc = "release", ![t].tnow = now]
           ELSE /\ th' = [th EXCEPT ![t].pc = "set_room"]
                /\ UNCHANGED cache
    /\ UNCHANGED <<stats, now, calls, c_last, lock, ser>>
    /\ ThreadFrame

\* set, lines 125-128: popitem(last=False) when the limit is reached
ThSetRoom(t) ==
    /\ th[t].pc = "set_room"
    /\ IF AtCapacity(cache, max_size)
       THEN IF cache = <<>>
            THEN /\ th' = [th EXCEPT ![t].pc = "release", ![t].raised = "KeyError",
                                     ![t].tnow = now]
                 /\ UNCHANGED cache
            ELSE /\ cache' = Tail(cache)
                 /\ th' = [th EXCEPT ![t].pc = "count", ![t].todo = <<"evictions">>,
                                     ![t].after = "set_insert"]
       ELSE /\ th' = [th EXCEPT ![t].pc = "set_insert"]
            /\ UNCHANGED cache
    /\ UNCHANGED <<stats, now, calls, c_last, lock, ser>>
    /\ ThreadFrame

\* set, line 130: self._cache[key] = CacheEntry(value=value); a key that is
\* present keeps its place
ThSetInsert(t) ==
    /\ th[t].pc = "set_insert"
    /\ LET key == KeyOf(th[t].lookup)
           i == IndexOfKey(cache, key)
           entry == NewEntry(key, th[t].value, now, th[t].lookup)
       IN  cache' = IF i = 0 THEN Append(cache, entry) ELSE [cache EXCEPT ![i] = entry]
    /\ th' = [th EXCEPT ![t].pc = "release", ![t].tnow = now]
    /\ UNCHANGED <<stats, now, calls, c_last, lock, ser>>
    /\ ThreadFrame

\* clear, line 136
ThClear(t) ==
    /\ th[t].pc = "clear"
    /\ cache' = <<>>
    /\ th' = [th EXCEPT ![t].pc = "release"]
    /\ UNCHANGED <<stats, now, calls, c_last, lock, ser>>
    /\ ThreadFrame

\* stats, lines 143-151
ThStats(t) ==
    /\ th[t].pc = "stats"
    /\ th' = [th EXCEPT ![t].pc = "release", ![t].ret = <<StatsOf(cache, stats)>>]
    /\ UNCHANGED <<cache, stats, now, calls, c_last, lock, ser>>
    /\ ThreadFrame

\* leaving the with block, by return or by exception: the lock is released
ThRelease(t) ==
    /\ th[t].pc = "release"
    /\ lock' = 0
    /\ c_last' = [op |-> th[t].op, lookup |-> th[t].lookup, ret |-> th[t].ret,
                  raised |-> th[t].raised]
    /\ ser' = CallOn(ser, th[t])
    /\ th' = [th EXCEPT ![t] = ThreadIdle]
    /\ UNCHANGED <<cache, stats, now, calls>>
    /\ ThreadFrame

\* the clock advances, whoever holds the lock
ThTick ==
    /\ now < MaxTime
    /\ now' = now + 1
    /\ UNCHANGED <<cache, stats, calls, c_last, lock, th, ser>>
    /\ ThreadFrame

NextThreads ==
    \/ \E t \in Threads, L \in ThreadLookups : ThAcquire(t, "get", L)
    \/ \E t \in Threads, L \in ThreadLookups : ThAcquire(t, "set", L)
    \/ \E t \in Threads : ThAcquire(t, "clear", NoLookup)
    \/ \E t \in Threads : ThAcquire(t, "stats", NoLookup)
    \/ \E t \in Threads :
          \/ ThGetLookup(t)
          \/ ThGetTtl(t)
          \/ ThLoad(t)
          \/ ThStore(t)
          \/ ThSetLookup(t)
          \/ ThSetRoom(t)
          \/ ThSetInsert(t)
          \/ ThClear(t)
          \/ ThStats(t)
          \/ ThRelease(t)
    \/ ThTick

(***************************************************************************)
(* RecursiveTokenSplitter, scripts/ingest_docs.py lines 203-307.  The       *)
(* tiktoken encoding is the environment: a tokenizer here is a set of       *)
(* character pairs that encode to one token, every other character being a *)
(* token of its own, and texts are encoded greedily from the left.         *)
(***************************************************************************)
WhitespaceChars == {" ", "\n"}

\* str.strip()
RECURSIVE LStrip(_)
LStrip(text) ==
    IF text # <<>> /\ text[1] \in WhitespaceChars THEN LStrip(Tail(text)) ELSE text

RECURSIVE RStrip(_)
RStrip(text) ==
    IF text # <<>> /\ text[Len(text)] \in WhitespaceChars
    THEN RStrip(SubSeq(text, 1, Len(text) - 1))
    ELSE text

Strip(text) == RStrip(LStrip(text))

\* where sep first occurs in text, 0 if it does not: sep in text, str.find
FirstOccurrence(text, sep) ==
    LET at == {k \in 1..(Len(text) - Len(sep) + 1) : SubSeq(text, k, k + Len(sep) - 1) = sep}
    IN  IF at = {} THEN 0 ELSE CHOOSE k \in at : \A j \in at : k <= j

\* text.split(sep) for a non-empty sep
RECURSIVE StrSplit(_, _)
StrSplit(text, sep) ==
    LET k == FirstOccurrence(text, sep)
    IN  IF k = 0
        THEN <<text>>
        ELSE <<SubSeq(text, 1, k - 1)>> \o StrSplit(SubSeq(text, k + Len(sep), Len(text)), sep)

\* list(text)
Chars(text) == [i \in 1..Len(text) |-> <<text[i]>>]

\* "".join(parts)
RECURSIVE Join(_)
Join(parts) == IF parts = <<>> THEN <<>> ELSE parts[1] \o Join(Tail(parts))

\* self.tokenizer.encode(text): the tokens, each the characters it stands for
RECURSIVE Encode(_)
Encode(text) ==
    IF text = <<>> THEN <<>>
    ELSE IF Len(text) >= 2 /\ SubSeq(text, 1, 2) \in tokenizer
    THEN <<SubSeq(text, 1, 2)>> \o Encode(SubSeq(text, 3, Len(text)))
    ELSE <<SubSeq(text, 1, 1)>> \o Encode(Tail(text))

\* self.tokenizer.decode(tokens)
Decode(tokens) == Join(tokens)

\* _length, lines 306-307
Length(text) == Len(Encode(text))

\* _force_split, lines 258-265: windows of chunk_size tokens, one every
\* chunk_size - chunk_overlap tokens
RECURSIVE ForceWindows(_, _)
ForceWindows(tokens, i) ==
    IF i >= Len(tokens) THEN <<>>
    ELSE <<Decode(SubSeq(tokens, i + 1, Min(i + chunk_size, Len(tokens))))>>
         \o ForceWindows(tokens, i + (chunk_size - chunk_overlap))

ForceSplit(text) == ForceWindows(Encode(text), 0)

\* _merge_splits, lines 267-304: one turn of the loop; m holds chunks,
\* current_chunk and current_len
MergeStep(m, split) ==
    LET split_len == Length(split)
        joined_doc == Strip(Join(m.current_chunk))
        overlap_text == SubSeq(joined_doc, Len(joined_doc) - chunk_overlap + 1, Len(joined_doc))
        alone == [m EXCEPT !.current_chunk = <<split>>, !.current_len = split_len]
    IN  IF m.current_len + split_len > chunk_size
        THEN IF m.current_chunk # <<>>
             THEN IF joined_doc # <<>>
                  THEN IF chunk_overlap > 0 /\ Len(joined_doc) > chunk_overlap
                       THEN [chunks |-> Append(m.chunks, joined_doc),
                             current_chunk |-> <<overlap_text, split>>,
                             current_len |-> Length(overlap_text) + split_len]
                       ELSE [alone EXCEPT !.chunks = Append(m.chunks, joined_doc)]
                  ELSE alone
             ELSE alone
        ELSE [m EXCEPT !.current_chunk = Append(@, split), !.current_len = @ + split_len]

RECURSIVE MergeLoop(_, _)
MergeLoop(m, splits) ==
    IF splits = <<>> THEN m ELSE MergeLoop(MergeStep(m, splits[1]), Tail(splits))

MergeSplits(splits) ==
    LET m == MergeLoop([chunks |-> <<>>, current_chunk |-> <<>>, current_len |-> 0], splits)
        doc == Strip(Join(m.current_chunk))
    IN  IF m.current_chunk # <<>> /\ doc # <<>> THEN Append(m.chunks, doc) ELSE m.chunks

\* self.separators, line 215
Separators == << <<"\n", "\n">>, <<"\n">>, <<".">>, <<" ">>, <<>> >>

\* lines 224-232: the index of the first separator that is "" or occurs in
\* the text, 0 if the loop ends without a break
ChosenIndex(text, separators) ==
    LET hits == {i \in 1..Len(separators) :
                    separators[i] = <<>> \/ FirstOccurrence(text, separators[i]) # 0}
    IN  IF hits = {} THEN 0 ELSE CHOOSE i \in hits : \A j \in hits : i <= j

\* _split_text_recursive, lines 220-256
RECURSIVE SplitTextRecursive(_, _)
RECURSIVE GoodSplits(_, _, _)
GoodSplits(splits, separator, new_separators) ==
    IF splits = <<>> THEN <<>>
    ELSE LET rest == GoodSplits(Tail(splits), separator, new_separators)
             split == splits[1] \o separator
         IN  IF Strip(splits[1]) = <<>>
             THEN rest
             ELSE IF Length(split) < chunk_size
             THEN <<split>> \o rest
             ELSE IF new_separators # <<>>
             THEN SplitTextRecursive(split, new_separators) \o rest
             ELSE ForceSplit(split) \o rest

SplitTextRecursive(text, separators) ==
    LET i == ChosenIndex(text, separators)
        separator == IF i = 0 THEN separators[Len(separators)] ELSE separators[i]
        new_separators == IF i = 0 \/ separator = <<>>
                          THEN <<>>
                          ELSE SubSeq(separators, i + 1, Len(separators))
        splits == IF separator # <<>> THEN StrSplit(text, separator) ELSE Chars(text)
    IN  MergeSplits(GoodSplits(splits, separator, new_separators))

\* split_text, lines 217-218
SplitText(text) == SplitTextRecursive(text, Separators)

(***************************************************************************)
(* The splitter's callers                                                  *)
(***************************************************************************)
TextChars == {"a", ".", " ", "\n"}

RECURSIVE TextsOfLen(_)
TextsOfLen(n) ==
    IF n = 0 THEN {<<>>}
    ELSE {Append(t, c) : t \in TextsOfLen(n - 1), c \in TextChars}

Texts == UNION {TextsOfLen(n) : n \in 0..MaxTextLen}

\* the encodings: one token per character, or words that take their leading
\* space and double letters as one token (as GPT encodings do)
Tokenizers == { {}, {<<" ", "a">>, <<"a", "a">>} }

SplitterIdle ==
    /\ sp_state = "none"
    /\ chunk_size = 0
    /\ chunk_overlap = 0
    /\ tokenizer = {}
    /\ sp_text = <<>>
    /\ sp_chunks = <<>>
    /\ sp_args = [chunk_size |-> 0, chunk_overlap |-> 0]
    /\ sp_returned = FALSE

\* a constructor that lets an overlap equal to the chunk size through
OverlapRejectedAboveOnly(size, overlap) == overlap < 0 \/ overlap > size

\* lines 205-210: the two checks that raise ValueError
OverlapRejected(size, overlap) == overlap < 0 \/ overlap >= size

\* __init__, lines 204-215
SplitterNew(size, overlap, enc) ==
    /\ sp_state = "none"
    /\ IF OverlapRejected(size, overlap)
       THEN /\ sp_state' = "raised"
            /\ UNCHANGED <<chunk_size, chunk_overlap, tokenizer>>
       ELSE /\ sp_state' = "constructed"
            /\ chunk_size' = size
            /\ chunk_overlap' = overlap
            /\ tokenizer' = enc
    /\ sp_args' = [chunk_size |-> size, chunk_overlap |-> overlap]
    /\ UNCHANGED <<sp_text, sp_chunks, sp_returned>>
    /\ UNCHANGED not_splitter

\* split_text(text) on a constructed splitter
SplitCall(text) ==
    /\ sp_state = "constructed"
    /\ ~sp_returned
    /\ sp_returned' = TRUE
    /\ sp_text' = text
    /\ sp_chunks' = SplitText(text)
    /\ UNCHANGED <<sp_state, chunk_size, chunk_overlap, tokenizer, sp_args>>
    /\ UNCHANGED not_splitter

NextSplitter ==
    \/ \E size \in 0..MaxChunk, overlap \in (0 - 1)..MaxChunk, enc \in Tokenizers :
          SplitterNew(size, overlap, enc)
    \/ \E text \in Texts : SplitCall(text)

(***************************************************************************)
(* extract_legal_metadata, scripts/ingest_docs.py lines 59-141.  A          *)
(* character outside ASCII is written by its name: "u_acute" is the letter *)
(* u with an acute accent, "A_tilde" and "ordm" are the two characters the *)
(* file's literals hold in its place.                                      *)
(***************************************************************************)
UpperLetters == <<"A", "B", "C", "D", "E", "F", "G", "H", "I", "J", "K", "L", "M", "N", "O", "P", "Q", "R", "S", "T", "U", "V", "W", "X", "Y", "Z">>

LowerLetters == <<"a", "b", "c", "d", "e", "f", "g", "h", "i", "j", "k", "l", "m", "n", "o", "p", "q", "r", "s", "t", "u", "v", "w", "x", "y", "z">>

AccentedUpper == <<"U_acute", "A_tilde", "A_circ">>

AccentedLower == <<"u_acute", "a_tilde", "a_circ">>

DigitChars == {"0", "1", "2", "3", "4", "5", "6", "7", "8", "9"}

\* the characters \w matches: letters (the ordinal indicator is one), digits
\* and the underscore
WordChars ==
    Range(UpperLetters) \cup Range(LowerLetters) \cup Range(AccentedUpper)
        \cup Range(AccentedLower) \cup {"c_cedilla", "o_tilde", "ordm"} \cup DigitChars \cup {"_"}

\* the image of c under the pairing from -> to, c itself if it is not paired
Mapped(c, from, to) ==
    IF \E i \in 1..Len(from) : from[i] = c
    THEN to[CHOOSE i \in 1..Len(from) : from[i] = c]
    ELSE c

\* str.lower()
Lower(text) ==
    [i \in 1..Len(text) |->
        Mapped(Mapped(text[i], UpperLetters, LowerLetters), AccentedUpper, AccentedLower)]

\* str.upper()
Upper(text) ==
    [i \in 1..Len(text) |->
        Mapped(Mapped(text[i], LowerLetters, UpperLetters), AccentedLower, AccentedUpper)]

\* str.replace(old, new)
RECURSIVE Replace(_, _, _)
Replace(text, old, new) ==
    LET k == FirstOccurrence(text, old)
    IN  IF k = 0 THEN text
        ELSE SubSeq(text, 1, k - 1) \o new
                 \o Replace(SubSeq(text, k + Len(old), Len(text)), old, new)

\* lines 74-75
NormName(clean_name) ==
    LET a == Replace(clean_name, <<"A_tilde", "ordm">>, <<"u">>)
        b == Replace(a, <<"A_tilde", "sect">>, <<"c">>)
        c == Replace(b, <<"A_tilde", "pound">>, <<"a">>)
        d == Replace(c, <<"A_tilde", "µ">>, <<"o">>)
    IN  Replace(Replace(Replace(d, <<"_">>, <<" ">>), <<"-">>, <<" ">>), <<".">>, <<" ">>)

\* w stands in text from position k on
MatchesAt(text, k, w) ==
    k >= 1 /\ k + Len(w) - 1 <= Len(text) /\ SubSeq(text, k, k + Len(w) - 1) = w

IsWordAt(text, k) == k >= 1 /\ k <= Len(text) /\ text[k] \in WordChars

\* \b between the characters k - 1 and k
BoundaryAt(text, k) == IsWordAt(text, k - 1) # IsWordAt(text, k)

\* re.search of \bfirst\s*second\b, for some first in p.first and some second
\* in p.second; a pattern of one word has the empty second word and no gap
PatternFound(text, p) ==
    \E k \in 1..Len(text), a \in p.first, b \in p.second, n \in 0..Len(text) :
        /\ b = <<>> => n = 0
        /\ MatchesAt(text, k, a)
        /\ \A j \in (k + Len(a))..(k + Len(a) + n - 1) :
              j <= Len(text) /\ text[j] \in WhitespaceChars
        /\ MatchesAt(text, k + Len(a) + n, b)
        /\ BoundaryAt(text, k)
        /\ BoundaryAt(text, k + Len(a) + n + Len(b))

\* lines 79-90: the type patterns, specific before general, each with its label
TypePatterns ==
    << [first |-> {<<"s", "u", "m", "u", "l", "a">>, <<"s", "u", "m", "u", "l", "a", "s">>},
        second |-> {<<>>},
        label |-> <<"S", "A_tilde", "ordm", "m", "u", "l", "a">>],
       [first |-> {<<"l", "e", "i", " ", "c", "o", "m", "p", "l", "e", "m", "e", "n", "t", "a", "r">>},
        second |-> {<<>>},
        label |-> <<"L", "e", "i", " ", "C", "o", "m", "p", "l", "e", "m", "e", "n", "t", "a", "r">>],
       [first |-> {<<"l", "c">>}, second |-> {<<>>},
        label |-> <<"L", "e", "i", " ", "C", "o", "m", "p", "l", "e", "m", "e", "n", "t", "a", "r">>],
       [first |-> {<<"d", "e", "c", "r", "e", "t", "o">>}, second |-> {<<"l", "e", "i">>},
        label |-> <<"D", "e", "c", "r", "e", "t", "o", "-", "L", "e", "i">>],
       [first |-> {<<"d", "l">>}, second |-> {<<>>},
        label |-> <<"D", "e", "c", "r", "e", "t", "o", "-", "L", "e", "i">>],
       [first |-> {<<"d", "e", "c", "r", "e", "t", "o">>}, second |-> {<<>>},
        label |-> <<"D", "e", "c", "r", "e", "t", "o">>],
       [first |-> {<<"d", "e", "c">>}, second |-> {<<>>},
        label |-> <<"D", "e", "c", "r", "e", "t", "o">>],
       [first |-> {<<"p", "o", "r", "t", "a", "r", "i", "a">>, <<"p", "o", "r", "t", "a", "r", "i", "a", "s">>}, second |-> {<<>>},
        label |-> <<"P", "o", "r", "t", "a", "r", "i", "a">>],
       [first |-> {<<"r", "e", "s", "o", "l", "u", "c", "a", "o">>, <<"r", "e", "s", "o", "l", "u", "c", "A_tilde", "o">>, <<"r", "e", "s", "o", "l", "u", "c", "pound", "o">>, <<"r", "e", "s", "o", "l", "u", "A_tilde", "a", "o">>, <<"r", "e", "s", "o", "l", "u", "A_tilde", "A_tilde", "o">>, <<"r", "e", "s", "o", "l", "u", "A_tilde", "pound", "o">>, <<"r", "e", "s", "o", "l", "u", "sect", "a", "o">>, <<"r", "e", "s", "o", "l", "u", "sect", "A_tilde", "o">>, <<"r", "e", "s", "o", "l", "u", "sect", "pound", "o">>}, second |-> {<<>>},
        label |-> <<"R", "e", "s", "o", "l", "u", "A_tilde", "sect", "A_tilde", "pound", "o">>],
       [first |-> {<<"l", "e", "i">>, <<"l", "e", "i", "s">>}, second |-> {<<>>},
        label |-> <<"L", "e", "i">>] >>

\* LEGAL_AUTHORITIES, lines 36-56
LegalAuthorities ==
    << <<"s", "t", "f">>, <<"s", "t", "j">>, <<"t", "s", "e">>,
       <<"t", "n", "u">>, <<"t", "c", "u">>, <<"a", "g", "u">>,
       <<"t", "j", "r", "j">>, <<"t", "j", "s", "p">>, <<"t", "j", "m", "g">>,
       <<"t", "j", "r", "f">>, <<"t", "r", "f">>, <<"t", "r", "t">>,
       <<"t", "s", "t">>, <<"s", "t", "m">>, <<"a", "n", "a", "t", "e", "l">>,
       <<"a", "n", "e", "e", "l">>, <<"a", "n", "t", "t">>, <<"a", "n", "v", "i", "s", "a">> >>

\* lines 92-95: the label of the first pattern found, <<>> if none is
DetectType(norm_name) ==
    LET found == {i \in 1..Len(TypePatterns) : PatternFound(norm_name, TypePatterns[i])}
    IN  IF found = {} THEN <<>>
        ELSE TypePatterns[CHOOSE i \in found : \A j \in found : i <= j].label

\* lines 98-102: the first authority found as a word, in upper case
DetectAuthority(norm_name) ==
    LET found == {i \in 1..Len(LegalAuthorities) :
                     PatternFound(norm_name, [first |-> {LegalAuthorities[i]}, second |-> {<<>>}])}
    IN  IF found = {} THEN <<>>
        ELSE Upper(LegalAuthorities[CHOOSE i \in found : \A j \in found : i <= j])

\* int(s) of a string of digits
RECURSIVE ParseInt(_)
ParseInt(digits) ==
    IF digits = <<>> THEN 0
    ELSE 10 * ParseInt(SubSeq(digits, 1, Len(digits) - 1))
         + (CHOOSE d \in 0..9 : Digit(d) = digits[Len(digits)])

\* lines 105-107: re.search of \b(19|20)\d{2}\b in clean_name; <<>> or <<year>>
DetectYear(clean_name) ==
    LET at == {k \in 1..Len(clean_name) :
                  /\ \/ MatchesAt(clean_name, k, <<"1", "9">>)
                     \/ MatchesAt(clean_name, k, <<"2", "0">>)
                  /\ k + 3 <= Len(clean_name)
                  /\ clean_name[k + 2] \in DigitChars
                  /\ clean_name[k + 3] \in DigitChars
                  /\ BoundaryAt(clean_name, k)
                  /\ BoundaryAt(clean_name, k + 4)}
    IN  IF at = {} THEN <<>>
        ELSE LET k == CHOOSE k \in at : \A j \in at : k <= j
             IN  <<ParseInt(SubSeq(clean_name, k, k + 3))>>

\* the digits text holds from position k on: \d+ there, <<>> if there is none
RECURSIVE DigitsFrom(_, _)
DigitsFrom(text, k) ==
    IF k <= Len(text) /\ text[k] \in DigitChars
    THEN <<text[k]>> \o DigitsFrom(text, k + 1)
    ELSE <<>>

\* position of the first character from k on that is not whitespace: \s*
RECURSIVE SkipSpace(_, _)
SkipSpace(text, k) ==
    IF k <= Len(text) /\ text[k] \in WhitespaceChars THEN SkipSpace(text, k + 1) ELSE k

\* line 114: the alternatives of number_keywords, in order; n[..] spelt out
\* over the characters its class holds
NumberKeywords ==
    << <<"n", "A_circ">>, <<"n", "ordm">>, <<"n", "deg">>, <<"n", "o">>,
       <<"n", "u", "m">>, <<"n", "u", "m", "e", "r", "o">>, <<"l", "e", "i">>, <<"d", "e", "c">>,
       <<"d", "e", "c", "r", "e", "t", "o">>, <<"l", "c">>, <<"d", "l">>, <<"p", "o", "r", "t", "a", "r", "i", "a">> >>

\* the keyword regex started at position k: keyword, \s*, (\d+)
KeywordAt(text, k) ==
    {i \in 1..Len(NumberKeywords) :
        /\ MatchesAt(text, k, NumberKeywords[i])
        /\ DigitsFrom(text, SkipSpace(text, k + Len(NumberKeywords[i]))) # <<>>}

\* lines 114-119: re.search(number_keywords, norm_name): whether it matched and
\* its group(1)
KeywordMatch(norm_name) ==
    LET at == {k \in 1..Len(norm_name) : KeywordAt(norm_name, k) # {}}
    IN  IF at = {} THEN [matched |-> FALSE, number |-> <<>>]
        ELSE LET k == CHOOSE k \in at : \A j \in at : k <= j
                 i == CHOOSE i \in KeywordAt(norm_name, k) :
                          \A j \in KeywordAt(norm_name, k) : i <= j
             IN  [matched |-> TRUE,
                  number |-> DigitsFrom(norm_name,
                                        SkipSpace(norm_name, k + Len(NumberKeywords[i])))]

\* re.findall(r"\d+", text): the maximal runs of digits, in order
RECURSIVE DigitRuns(_, _)
DigitRuns(text, k) ==
    IF k > Len(text) THEN <<>>
    ELSE IF text[k] \in DigitChars
    THEN <<DigitsFrom(text, k)>> \o DigitRuns(text, k + Len(DigitsFrom(text, k)))
    ELSE DigitRuns(text, k + 1)

\* lines 121-132: the first run of 1 to 8 digits that is not the year
RECURSIVE FallbackNumber(_, _)
FallbackNumber(all_numbers, year) ==
    IF all_numbers = <<>> THEN <<>>
    ELSE LET num == all_numbers[1]
         IN  IF year # <<>> /\ FormatInt(year[1]) = num
             THEN FallbackNumber(Tail(all_numbers), year)
             ELSE IF Len(num) >= 1 /\ Len(num) <= 8
             THEN num
             ELSE FallbackNumber(Tail(all_numbers), year)

\* a number kept whatever the context
NumberKeptAlways(matched, type, authority) == TRUE

\* line 138: keyword_match or meta.get("type") or meta.get("authority")
NumberKept(matched, type, authority) == matched \/ type # <<>> \/ authority # <<>>

\* extract_legal_metadata, lines 59-141
ExtractLegalMetadata(filename) ==
    LET clean_name == Lower(filename)
        norm_name == NormName(clean_name)
        type == DetectType(norm_name)
        authority == DetectAuthority(norm_name)
        year == DetectYear(clean_name)
        keyword_match == KeywordMatch(norm_name)
        candidate_number == IF keyword_match.matched
                            THEN keyword_match.number
                            ELSE FallbackNumber(DigitRuns(clean_name, 1), year)
    IN  [type |-> type,
         authority |-> authority,
         year |-> year,
         number |-> IF candidate_number # <<>>
                       /\ NumberKept(keyword_match.matched, type, authority)
                    THEN candidate_number
                    ELSE <<>>]

\* the mapping with no key
EmptyMeta == [type |-> <<>>, authority |-> <<>>, year |-> <<>>, number |-> <<>>]

(***************************************************************************)
(* The filenames the ingestion meets: those of the authors' tests and      *)
(* those put together from a few pieces                                    *)
(***************************************************************************)
ExampleFilenames ==
    { <<"A", "G", "U", " ", "(", "L", "C", " ", "7", "3", " ", "d", "e", " ", "1", "9", "9", "3", ")", ".", "d", "o", "c", "x">>,
      <<"S", "u_acute", "m", "u", "l", "a", "s", " ", "S", "T", "F", " ", "a", "t", "u", "a", "l", "i", "z", "a", "d", "o", ".", "d", "o", "c", "x">>,
      <<"L", "e", "i", " ", "8", "6", "6", "6", ".", "d", "o", "c", "x">>,
      <<"L", "C", "_", "7", "3", ".", "p", "d", "f">>,
      <<"s", "u", "m", "u", "l", "a", "s", " ", "d", "o", " ", "T", "J", "R", "J", "-", "2", "0", "2", "3", ".", "p", "d", "f">>,
      <<"a", "r", "q", "u", "i", "v", "o", "_", "s", "e", "m", "_", "n", "a", "d", "a", ".", "t", "x", "t">>,
      <<"r", "e", "c", "e", "i", "t", "a", "s", "_", "d", "e", "_", "b", "o", "l", "o", ".", "d", "o", "c", "x">>,
      <<"1", "2", "3", "4", "5", "6", ".", "p", "d", "f">> }

FilenamePieces ==
    { <<"L", "e", "i">>,
      <<"L", "C">>,
      <<"l", "e", "i", " ", "c", "o", "m", "p", "l", "e", "m", "e", "n", "t", "a", "r">>,
      <<"D", "e", "c", "r", "e", "t", "o">>,
      <<"d", "e", "c">>,
      <<"S", "u_acute", "m", "u", "l", "a">>,
      <<"s", "u", "m", "u", "l", "a", "s">>,
      <<"S", "T", "F">>,
      <<"a", "g", "u">>,
      <<"n", "ordm">>,
      <<"7", "3">>,
      <<"2", "0", "2", "0">>,
      <<"1", "2", "3", "4", "5", "6">>,
      <<" ">>,
      <<"_">>,
      <<"-">>,
      <<".", "p", "d", "f">>,
      <<"x">>,
      <<"d", "e">> }

RECURSIVE FilenamesOf(_)
FilenamesOf(n) ==
    IF n = 0 THEN {<<>>}
    ELSE {f \o p : f \in FilenamesOf(n - 1), p \in FilenamePieces}

Filenames == ExampleFilenames \cup UNION {FilenamesOf(n) : n \in 0..MaxPieces}

MetadataIdle ==
    /\ md_filename = <<>>
    /\ md_meta = EmptyMeta
    /\ md_returned = FALSE

\* one call of extract_legal_metadata(filename)
ExtractCall(filename) ==
    /\ ~md_returned
    /\ md_returned' = TRUE
    /\ md_filename' = filename
    /\ md_meta' = ExtractLegalMetadata(filename)
    /\ UNCHANGED not_metadata

NextMetadata == \E filename \in Filenames : ExtractCall(filename)

(***************************************************************************)
(* generate_completion_response, completion.py lines 297-498.  Its callers *)
(* are coroutines of one event loop: a caller runs alone from one await to *)
(* the next, so each action is the stretch of code between two awaits.     *)
(* The completion the model produces on its n-th answer is written n, and  *)
(* the value n in the cache stands for CompletionData(OK, n, None).        *)
(***************************************************************************)
Callers == {1, 2}

\* the statuses the except clauses of lines 467-498 return
Failures == {"TOO_LONG", "INVALID_REQUEST", "OTHER_ERROR", "RATE_LIMIT"}

CallerIdle ==
    [pc |-> "idle", lookup |-> NoLookup, status |-> "none", reply |-> <<>>,
     from_cache |-> FALSE, invoked |-> 0, stored |-> FALSE, dropped |-> FALSE]

CompletionIdle ==
    /\ co = [t \in Callers |-> CallerIdle]
    /\ co_n = 0
    /\ co_sets = <<>>

\* the cache and its counters as the record GetOn and SetOn work on
CacheState == [cache |-> cache, stats |-> stats, ret |-> <<>>, raised |-> ""]

\* the live list after get(L) and after set(L, v), as Get and Set keep it
LiveAfterGet(L) ==
    LET i == IndexOfKey(cache, KeyOf(L))
    IN  IF i = 0 THEN live
        ELSE IF Expired(cache[i], now, ttl_seconds) THEN Forgotten(live, {cache[i].by})
        ELSE Touched(live, cache[i].by)

LiveAfterSet(L, v) ==
    LET i == IndexOfKey(cache, KeyOf(L))
    IN  IF i # 0 THEN Stored(Forgotten(live, {cache[i].by}), L, v, now)
        ELSE IF AtCapacity(cache, max_size)
        THEN IF cache = <<>> THEN live
             ELSE Stored(Forgotten(live, {cache[1].by}), L, v, now)
        ELSE Stored(live, L, v, now)

\* a set that leaves temperature and max_tokens to their defaults
SetLookupDefaults(c) == [c.lookup EXCEPT !.temperature = 10, !.max_tokens = 512]

\* lines 457-463: set is called with the messages, model, temperature and
\* max_tokens that get was called with at lines 306-311
SetLookup(c) == c.lookup

CompletionFrame ==
    /\ UNCHANGED <<max_size, ttl_seconds, now, th, ser>>
    /\ UNCHANGED not_completion

\* lines 305-316: the call, response_cache.get and the return of a hit; on a
\* miss the caller goes on to its first await
CoCall(t, L) ==
    /\ co[t].pc = "idle"
    /\ LockFree
    /\ LET s == GetOn(CacheState, L, now)
       IN  /\ cache' = s.cache
           /\ stats' = s.stats
           /\ c_last' = [op |-> "get", lookup |-> L, ret |-> s.ret, raised |-> ""]
           /\ IF s.ret # <<>>
              THEN co' = [co EXCEPT ![t] = [CallerIdle EXCEPT !.pc = "returned", !.lookup = L,
                                              !.status = "OK", !.reply = s.ret,
                                              !.from_cache = TRUE]]
              ELSE \* dropped: the get removed the expired entry of the key (line 93)
                   co' = [co EXCEPT ![t] = [CallerIdle EXCEPT !.pc = "rag", !.lookup = L,
                                              !.dropped = Len(s.cache) < Len(cache)]]
    /\ live' = LiveAfterGet(L)
    /\ calls' = calls + 1
    /\ lock' = 0
    /\ UNCHANGED <<co_n, co_sets>>
    /\ CompletionFrame

\* lines 320-347: the retrieval is awaited (line 327) when the conversation has
\* a message of the user; whatever it raises is logged and the caller goes on
CoRag(t) ==
    /\ co[t].pc = "rag"
    /\ co' = [co EXCEPT ![t].pc = "create"]
    /\ UNCHANGED <<cache, stats, c_last, live, calls, lock, co_n, co_sets>>
    /\ CompletionFrame

\* the caller returns the status of the except clause that caught the failure
CoFails(t, status) ==
    /\ co' = [co EXCEPT ![t].pc = "returned", ![t].status = status, ![t].reply = <<>>]
    /\ UNCHANGED <<cache, stats, c_last, live, calls, lock, co_n, co_sets>>

\* a caller that stores whatever it generated
StoresReplyAlways(used_tools) == TRUE

\* line 456: if not used_tools
StoresReply(used_tools) == ~used_tools

\* lines 453-466: the result is built from the reply the model just gave,
\* stored unless tools were used, and returned; an exception of set is caught
\* at line 494
CoReturn(t, used_tools) ==
    LET v == co_n + 1
        L == SetLookup(co[t])
        s == SetOn(CacheState, L, v, now)
    IN  /\ co_n' = v
        /\ IF StoresReply(used_tools)
           THEN /\ LockFree
                /\ cache' = s.cache
                /\ stats' = s.stats
                /\ c_last' = [op |-> "set", lookup |-> L, ret |-> <<>>, raised |-> s.raised]
                /\ live' = LiveAfterSet(L, v)
                /\ calls' = calls + 1
                /\ lock' = 0
                /\ IF s.raised = ""
                   THEN /\ co' = [co EXCEPT ![t].pc = "returned", ![t].status = "OK",
                                            ![t].reply = <<v>>, ![t].invoked = @ + 1,
                                            ![t].stored = TRUE]
                        /\ co_sets' = Append(co_sets, [caller |-> t, key |-> KeyOf(L),
                                                       value |-> v])
                   ELSE /\ co' = [co EXCEPT ![t].pc = "returned", ![t].status = "OTHER_ERROR",
                                            ![t].reply = <<>>, ![t].invoked = @ + 1]
                        /\ UNCHANGED co_sets
           ELSE /\ co' = [co EXCEPT ![t].pc = "returned", ![t].status = "OK",
                                    ![t].reply = <<v>>, ![t].invoked = @ + 1]
                /\ UNCHANGED <<cache, stats, c_last, live, calls, lock, co_sets>>

\* lines 389-447: the first completion comes back or raises.  Without tool
\* calls its content is the reply; with tool calls the caller awaits the tools
\* and the second completion
CoCreate(t, tools, fail) ==
    /\ co[t].pc = "create"
    /\ IF fail # "none"
       THEN CoFails(t, fail)
       ELSE IF tools
       THEN /\ co' = [co EXCEPT ![t].pc = "second", ![t].invoked = @ + 1]
            /\ co_n' = co_n + 1
            /\ UNCHANGED <<cache, stats, c_last, live, calls, lock, co_sets>>
       ELSE CoReturn(t, FALSE)
    /\ CompletionFrame

\* lines 432-445: the second completion comes back or raises; its content is
\* the reply of a response made with tools
CoSecond(t, fail) ==
    /\ co[t].pc = "second"
    /\ IF fail # "none"
       THEN CoFails(t, fail)
       ELSE CoReturn(t, TRUE)
    /\ CompletionFrame

NextCompletion ==
    \/ \E t \in Callers, L \in ThreadLookups : CoCall(t, L)
    \/ \E t \in Callers : CoRag(t)
    \/ \E t \in Callers, tools \in BOOLEAN, fail \in Failures \cup {"none"} :
          CoCreate(t, tools, fail)
    \/ \E t \in Callers, fail \in Failures \cup {"none"} : CoSecond(t, fail)
    \/ Tick

(***************************************************************************)
(* DatabaseService.connect, database.py lines 24-43.  Its callers are      *)
(* coroutines of one event loop; each action is the stretch of code a      *)
(* caller runs between two awaits.  Acquiring a free asyncio.Lock does not *)
(* suspend the caller.                                                     *)
(***************************************************************************)
Connectors == {1, 2, 3}

ConnectIdle ==
    /\ cn = [t \in Connectors |-> [pc |-> "idle", outcome |-> "none", created |-> FALSE,
                                    waited |-> FALSE]]
    /\ connect_lock = 0
    /\ cn_created = 0
    /\ cn_attempts = 0
    /\ cn_calls = 0

\* a caller that creates a pool without looking again
StillUnsetUnchecked == TRUE

\* line 31: if not self.pool, inside the lock
StillUnset == pool = "none"

ConnectFrame ==
    /\ UNCHANGED <<documents, client>>
    /\ UNCHANGED not_connect

\* lines 31-33 once the lock is held: create_pool is awaited if the pool is
\* still unset, else the lock is released and connect returns
CnLocked(t) ==
    IF StillUnset
    THEN /\ cn' = [cn EXCEPT ![t].pc = "creating", ![t].outcome = "none",
                             ![t].created = FALSE, ![t].waited = (cn[t].pc = "waiting")]
         /\ connect_lock' = t
         /\ cn_attempts' = cn_attempts + 1
    ELSE /\ cn' = [cn EXCEPT ![t].pc = "idle", ![t].outcome = "returned",
                             ![t].created = FALSE, ![t].waited = (cn[t].pc = "waiting")]
         /\ connect_lock' = 0
         /\ UNCHANGED cn_attempts

\* lines 26-29: connect is called; with a pool it returns at once, else it
\* enters the lock or waits for it
CnCall(t) ==
    /\ cn[t].pc = "idle"
    /\ cn_calls < MaxConnects
    /\ cn_calls' = cn_calls + 1
    /\ IF pool # "none"
       THEN /\ cn' = [cn EXCEPT ![t].outcome = "returned", ![t].created = FALSE,
                                ![t].waited = FALSE]
            /\ UNCHANGED <<connect_lock, cn_attempts>>
       ELSE IF connect_lock = 0
       THEN CnLocked(t)
       ELSE /\ cn' = [cn EXCEPT ![t].pc = "waiting", ![t].outcome = "none",
                                ![t].created = FALSE, ![t].waited = TRUE]
            /\ UNCHANGED <<connect_lock, cn_attempts>>
    /\ UNCHANGED <<pool, cn_created>>
    /\ ConnectFrame

\* line 29: a waiting caller gets the lock once it is free
CnAcquire(t) ==
    /\ cn[t].pc = "waiting"
    /\ connect_lock = 0
    /\ CnLocked(t)
    /\ UNCHANGED <<pool, cn_created, cn_calls>>
    /\ ConnectFrame

\* lines 33-43: create_pool returns the pool, or raises and connect logs and
\* re-raises; leaving the async with block releases the lock
CnCreated(t, ok) ==
    /\ cn[t].pc = "creating"
    /\ IF ok
       THEN /\ pool' = "open"
            /\ cn_created' = cn_created + 1
            /\ cn' = [cn EXCEPT ![t].pc = "idle", ![t].outcome = "returned",
                                ![t].created = TRUE]
       ELSE /\ cn' = [cn EXCEPT ![t].pc = "idle", ![t].outcome = "raised"]
            /\ UNCHANGED <<pool, cn_created>>
    /\ connect_lock' = 0
    /\ UNCHANGED <<cn_attempts, cn_calls>>
    /\ ConnectFrame

NextConnect ==
    \/ \E t \in Connectors : CnCall(t)
    \/ \E t \in Connectors : CnAcquire(t)
    \/ \E t \in Connectors, ok \in BOOLEAN : CnCreated(t, ok)

(***************************************************************************)
(* A value is set under one conversation and looked up under another, on   *)
(* the response cache as cache.py lines 166-177 build it.  The turns may   *)
(* hold the characters ':' and '|' that _hash_key puts between the parts.  *)
(***************************************************************************)
\* conversations of up to one turn more than _hash_key reads
MaxTurns == HASHED_TURNS + 1

TurnKinds ==
    { [user |-> <<"u">>, text |-> <<"a">>],
      [user |-> <<"u">>, text |-> <<"a", "|", "u", ":", "a">>] }

Conversations == UNION {[1..n -> TurnKinds] : n \in 0..MaxTurns}

KeyLookups == {[L EXCEPT !.messages = m] : L \in ThreadLookups, m \in Conversations}

KeysIdle == kx = [pc |-> "new", a |-> NoLookup, b |-> NoLookup]

KeysFrame ==
    /\ UNCHANGED <<max_size, ttl_seconds, now>>
    /\ UNCHANGED not_keys

\* response_cache.set(messages, model, value, temperature, max_tokens)
KeySet(a) ==
    /\ kx.pc = "new"
    /\ LET s == SetOn(CacheState, a, calls + 1, now)
       IN  /\ cache' = s.cache
           /\ stats' = s.stats
           /\ c_last' = [op |-> "set", lookup |-> a, ret |-> <<>>, raised |-> s.raised]
    /\ live' = LiveAfterSet(a, calls + 1)
    /\ calls' = calls + 1
    /\ kx' = [kx EXCEPT !.pc = "set", !.a = a]
    /\ KeysFrame

\* response_cache.get(messages, model, temperature, max_tokens)
KeyGet(b) ==
    /\ kx.pc = "set"
    /\ LET s == GetOn(CacheState, b, now)
       IN  /\ cache' = s.cache
           /\ stats' = s.stats
           /\ c_last' = [op |-> "get", lookup |-> b, ret |-> s.ret, raised |-> ""]
    /\ live' = LiveAfterGet(b)
    /\ calls' = calls + 1
    /\ kx' = [kx EXCEPT !.pc = "got", !.b = b]
    /\ KeysFrame

NextKeys ==
    \/ \E a \in KeyLookups : KeySet(a)
    \/ \E b \in KeyLookups : KeyGet(b)

(***************************************************************************)
(* Lines 199-222 on legs of 2 * n_results rows each, as the two SELECTs    *)
(* return them from a table with enough matching rows.  The semantic leg   *)
(* holds the ids 1..2n by rank; the lexical leg ends with the last m ids   *)
(* of the semantic leg, in the same or in the opposite order, after ids    *)
(* the semantic leg does not hold.                                         *)
(***************************************************************************)
\* the largest n_results for which 2 / (k + 2n) > 1 / (k + 1)
DominanceLimit == RRF_K \div 2

FullRow(id) == [id |-> id, content |-> "p"]

SemanticLeg(n) == [i \in 1..(2 * n) |-> FullRow(i)]

LexicalLeg(n, m, reversed) ==
    [i \in 1..(2 * n) |->
        IF i <= 2 * n - m THEN FullRow(2 * n + i)
        ELSE IF reversed THEN FullRow(2 * n - (i - (2 * n - m)) + 1)
        ELSE FullRow(i)]

\* lines 199-222 applied to the two legs
FusionCall(n, m, reversed) ==
    /\ q_pc = "idle"
    /\ q_n' = n
    /\ vector_rows' = SemanticLeg(n)
    /\ keyword_rows' = LexicalLeg(n, m, reversed)
    /\ \E top \in {Fuse(vector_rows', keyword_rows', n)} :
          /\ q_ids' = [i \in 1..Len(top) |-> top[i].id]
          /\ q_result' = [i \in 1..Len(top) |-> top[i].content]
    /\ q_pc' = "done"
    /\ q_outcome' = "returned"
    /\ UNCHANGED <<q_filter, q_attempt, filter_clause, filter_params, q_fail>>
    /\ UNCHANGED db_vars
    /\ UNCHANGED not_query

NextFusion ==
    \E n \in 1..DominanceLimit, m \in 0..MaxShared, reversed \in BOOLEAN :
        m <= 2 * n /\ FusionCall(n, m, reversed)

(***************************************************************************)
(* RAGService.query, one action per stretch of code between two awaits     *)
(***************************************************************************)
\* no add_documents call is running
AddIdle ==
    /\ a_pc = "idle" /\ a_docs = <<>> /\ a_metas = <<>> /\ a_attempt = 0
    /\ a_records = <<>> /\ tx_rows = <<>>
    /\ a_ret = FALSE /\ a_outcome = "none" /\ a_fail = "none"
    /\ a_before = <<>>

\* no query call is running
QueryIdle ==
    /\ q_pc = "idle" /\ q_n = 0 /\ q_filter = <<>> /\ q_attempt = 0
    /\ filter_clause = <<>> /\ filter_params = <<>>
    /\ vector_rows = <<>> /\ keyword_rows = <<>>
    /\ q_ids = <<>> /\ q_result = <<>>
    /\ q_outcome = "none" /\ q_fail = "none"

\* the coroutine ends: what the caller sees, and which failure caused it
QueryEnds(end, ids, why) ==
    /\ q_pc' = "done"
    /\ q_outcome' = end.outcome
    /\ q_result' = end.result
    /\ q_ids' = ids
    /\ q_fail' = why

\* lines 122-123: no embedding client, return [] at once
QueryCall(n, F) ==
    /\ q_pc = "idle"
    /\ q_n' = n /\ q_filter' = F
    /\ IF ~client
       THEN QueryEnds([outcome |-> "returned", result |-> <<>>], <<>>, "noclient")
       ELSE /\ q_pc' = "embed"
            /\ UNCHANGED <<q_outcome, q_result, q_ids, q_fail>>
    /\ UNCHANGED <<q_attempt, filter_clause, filter_params, vector_rows, keyword_rows>>
    /\ UNCHANGED db_vars
    /\ UNCHANGED not_query

\* lines 127-129 with get_embedding (41-48) over the retrying get_embeddings (26-39)
QueryEmbed ==
    /\ q_pc = "embed"
    /\ \/ /\ q_pc' = "connect"
          /\ q_attempt' = 0
          /\ UNCHANGED <<q_outcome, q_result, q_ids, q_fail>>
       \/ /\ q_attempt' = q_attempt + 1
          /\ IF q_attempt + 1 >= EMBED_ATTEMPTS
             THEN QueryEnds([outcome |-> "returned", result |-> <<>>], <<>>, "embed")
             ELSE UNCHANGED <<q_pc, q_outcome, q_result, q_ids, q_fail>>
    /\ UNCHANGED <<q_n, q_filter, filter_clause, filter_params, vector_rows, keyword_rows>>
    /\ UNCHANGED db_vars
    /\ UNCHANGED not_query

\* line 132 (DatabaseService.connect, database.py 24-43), then lines 134-167
QueryConnect ==
    /\ q_pc = "connect"
    /\ \/ /\ pool' = "open"
          /\ q_pc' = "acquire"
          /\ filter_clause' = BuildFilter(q_filter).clauses
          /\ filter_params' = BuildFilter(q_filter).params
          /\ UNCHANGED <<q_outcome, q_result, q_ids, q_fail>>
       \/ /\ pool = "none"
          /\ QueryEnds(QueryExcept, <<>>, "connect")
          /\ UNCHANGED <<pool, filter_clause, filter_params>>
    /\ UNCHANGED <<q_n, q_filter, q_attempt, vector_rows, keyword_rows>>
    /\ UNCHANGED <<documents, client>>
    /\ UNCHANGED not_query

\* line 169: db_service.pool.acquire()
QueryAcquire ==
    /\ q_pc = "acquire"
    /\ \/ /\ q_pc' = "vector"
          /\ UNCHANGED <<q_outcome, q_result, q_ids, q_fail>>
       \/ QueryEnds(QueryExcept, <<>>, "acquire")
    /\ UNCHANGED <<q_n, q_filter, q_attempt, filter_clause, filter_params,
                   vector_rows, keyword_rows>>
    /\ UNCHANGED db_vars
    /\ UNCHANGED not_query

\* lines 172-182: the semantic leg
QueryVectorFetch ==
    /\ q_pc = "vector"
    /\ LET args == QueryArgs(filter_params)
       IN  \/ /\ SqlValid(filter_clause, args)
              /\ \E rows \in VectorOutcomes(documents, filter_clause, args, q_n * 2) :
                    vector_rows' = rows
              /\ q_pc' = "keyword"
              /\ UNCHANGED <<q_outcome, q_result, q_ids, q_fail>>
           \/ /\ QueryEnds(QueryExcept, <<>>,
                           IF SqlValid(filter_clause, args) THEN "vector" ELSE "sql")
              /\ UNCHANGED vector_rows
    /\ UNCHANGED <<q_n, q_filter, q_attempt, filter_clause, filter_params, keyword_rows>>
    /\ UNCHANGED db_vars
    /\ UNCHANGED not_query

\* lines 186-222: the lexical leg, the fusion and the return
QueryKeywordFetch ==
    /\ q_pc = "keyword"
    /\ LET args == QueryArgs(filter_params)
       IN  \/ /\ SqlValid(filter_clause, args)
              /\ \E rows \in KeywordOutcomes(documents, filter_clause, args, q_n * 2) :
                    /\ keyword_rows' = rows
                    /\ LET top == Fuse(vector_rows, rows, q_n)
                       IN  QueryEnds([outcome |-> "returned",
                                      result |-> [i \in 1..Len(top) |-> top[i].content]],
                                     [i \in 1..Len(top) |-> top[i].id], "none")
           \/ /\ QueryEnds(QueryExcept, <<>>, "keyword")
              /\ UNCHANGED keyword_rows
    /\ UNCHANGED <<q_n, q_filter, q_attempt, filter_clause, filter_params, vector_rows>>
    /\ UNCHANGED db_vars
    /\ UNCHANGED not_query

\* the caller has the result; the next query may start
QueryReturn ==
    /\ q_pc = "done"
    /\ q_pc' = "idle" /\ q_n' = 0 /\ q_filter' = <<>> /\ q_attempt' = 0
    /\ filter_clause' = <<>> /\ filter_params' = <<>>
    /\ vector_rows' = <<>> /\ keyword_rows' = <<>>
    /\ q_ids' = <<>> /\ q_result' = <<>>
    /\ q_outcome' = "none" /\ q_fail' = "none"
    /\ UNCHANGED db_vars
    /\ UNCHANGED not_query

\* a batch committed meanwhile by an ingestion (add_documents, lines 93-102),
\* possibly between the two legs of a running query
StoreInsert ==
    /\ Len(documents) < MaxDocs
    /\ documents' = Append(documents, CorpusDoc(Len(documents) + 1))
    /\ UNCHANGED <<client, pool>>
    /\ UNCHANGED q_vars
    /\ UNCHANGED not_query

NextQuery ==
    \/ StoreInsert
    \/ \E n \in 1..MaxN, F \in Filters : QueryCall(n, F)
    \/ QueryEmbed
    \/ QueryConnect
    \/ QueryAcquire
    \/ QueryVectorFetch
    \/ QueryKeywordFetch
    \/ QueryReturn

InitStore ==
    /\ documents = <<>>
    /\ client \in BOOLEAN
    /\ pool = "none"

InitQuery ==
    /\ InitStore
    /\ QueryIdle
    /\ AddIdle
    /\ ThreadsIdle
    /\ SplitterIdle
    /\ MetadataIdle
    /\ CompletionIdle
    /\ ConnectIdle
    /\ KeysIdle
    /\ CacheNew(DEFAULT_MAX_SIZE, DEFAULT_TTL_SECONDS)

SpecQuery == InitQuery /\ [][NextQuery]_vars

(***************************************************************************)
(* RAGService.add_documents, lines 55-109                                  *)
(***************************************************************************)
\* the coroutine ends with a return value
AddEnds(ret, why) ==
    /\ a_pc' = "done"
    /\ a_ret' = ret
    /\ a_outcome' = "returned"
    /\ a_fail' = why

\* lines 78-91: zip(documents, metadatas, embeddings) stops at the shortest list;
\* a record is (doc, json.dumps(meta), str(emb))
ZipRecords(docs, metas, n_emb) ==
    [i \in 1..Min(Len(docs), Min(Len(metas), n_emb)) |->
        [content |-> docs[i], metadata |-> metas[i]]]

\* executemany writing its rows as it goes, outside any transaction
ExecRowAutocommit(table, tx, rec) == [table |-> Append(table, rec), tx |-> tx]

\* one INSERT of the executemany at lines 96-102, inside conn.transaction()
ExecRow(table, tx, rec) == [table |-> table, tx |-> Append(tx, rec)]

\* leaving conn.transaction() normally commits its rows
Commit(table, tx) == table \o tx

\* lines 57-59
AddCall(docs, metas) ==
    /\ a_pc = "idle"
    /\ a_docs' = docs /\ a_metas' = metas
    /\ a_before' = documents
    /\ IF ~client
       THEN AddEnds(FALSE, "noclient")
       ELSE /\ a_pc' = "connect"
            /\ UNCHANGED <<a_ret, a_outcome, a_fail>>
    /\ UNCHANGED <<a_attempt, a_records, tx_rows>>
    /\ UNCHANGED db_vars
    /\ UNCHANGED not_ingest

\* line 63 (DatabaseService.connect, database.py 24-43)
AddConnect ==
    /\ a_pc = "connect"
    /\ \/ /\ pool' = "open"
          /\ a_pc' = "embed"
          /\ UNCHANGED <<a_ret, a_outcome, a_fail>>
       \/ /\ pool = "none"
          /\ AddEnds(FALSE, "connect")
          /\ UNCHANGED pool
    /\ UNCHANGED <<a_docs, a_metas, a_attempt, a_records, tx_rows, a_before>>
    /\ UNCHANGED <<documents, client>>
    /\ UNCHANGED not_ingest

\* lines 68-91: the retried get_embeddings (26-39), the count check, the records
AddEmbed ==
    /\ a_pc = "embed"
    /\ \/ \E n_emb \in {Len(a_docs), Len(a_docs) - 1} :
             /\ a_attempt' = 0
             /\ IF n_emb # Len(a_docs)
                THEN /\ AddEnds(FALSE, "mismatch")
                     /\ UNCHANGED a_records
                ELSE /\ a_records' = ZipRecords(a_docs, a_metas, n_emb)
                     /\ a_pc' = "acquire"
                     /\ UNCHANGED <<a_ret, a_outcome, a_fail>>
       \/ /\ a_attempt' = a_attempt + 1
          /\ IF a_attempt + 1 >= EMBED_ATTEMPTS
             THEN AddEnds(FALSE, "embed")
             ELSE UNCHANGED <<a_pc, a_ret, a_outcome, a_fail>>
          /\ UNCHANGED a_records
    /\ UNCHANGED <<a_docs, a_metas, tx_rows, a_before>>
    /\ UNCHANGED db_vars
    /\ UNCHANGED not_ingest

\* line 93: pool.acquire() and the start of conn.transaction()
AddAcquire ==
    /\ a_pc = "acquire"
    /\ \/ /\ a_pc' = "insert"
          /\ UNCHANGED <<a_ret, a_outcome, a_fail>>
       \/ AddEnds(FALSE, "acquire")
    /\ UNCHANGED <<a_docs, a_metas, a_attempt, a_records, tx_rows, a_before>>
    /\ UNCHANGED db_vars
    /\ UNCHANGED not_ingest

\* lines 96-102: executemany sends the next record, or fails and the
\* transaction rolls back (lines 107-109 then return False)
AddExecRow ==
    /\ a_pc = "insert"
    /\ Len(tx_rows) < Len(a_records)
    /\ \/ LET w == ExecRow(documents, tx_rows, a_records[Len(tx_rows) + 1])
          IN  /\ documents' = w.table
              /\ tx_rows' = w.tx
              /\ UNCHANGED <<a_pc, a_ret, a_outcome, a_fail>>
       \/ /\ tx_rows' = <<>>
          /\ AddEnds(FALSE, "insert")
          /\ UNCHANGED documents
    /\ UNCHANGED <<a_docs, a_metas, a_attempt, a_records, a_before>>
    /\ UNCHANGED <<client, pool>>
    /\ UNCHANGED not_ingest

\* line 93 on exit: the transaction commits (or the commit fails and nothing
\* is kept); lines 104-105 return True
AddCommit ==
    /\ a_pc = "insert"
    /\ Len(tx_rows) = Len(a_records)
    /\ \/ /\ documents' = Commit(documents, tx_rows)
          /\ AddEnds(TRUE, "none")
       \/ /\ AddEnds(FALSE, "commit")
          /\ UNCHANGED documents
    /\ tx_rows' = <<>>
    /\ UNCHANGED <<a_docs, a_metas, a_attempt, a_records, a_before>>
    /\ UNCHANGED <<client, pool>>
    /\ UNCHANGED not_ingest

\* the caller has the boolean; the next batch may start
AddReturn ==
    /\ a_pc = "done"
    /\ a_pc' = "idle" /\ a_docs' = <<>> /\ a_metas' = <<>> /\ a_attempt' = 0
    /\ a_records' = <<>> /\ tx_rows' = <<>>
    /\ a_ret' = FALSE /\ a_outcome' = "none" /\ a_fail' = "none"
    /\ a_before' = <<>>
    /\ UNCHANGED db_vars
    /\ UNCHANGED not_ingest

\* the batches a caller sends: the next contents of the corpus (as ingest_docs
\* does), with as many, fewer or more metadata objects
BatchDocs(k) == [i \in 1..k |-> CorpusDoc(Len(documents) + i).content]

BatchMetas(m) == [i \in 1..m |-> CorpusDoc(Len(documents) + i).metadata]

NextIngest ==
    \/ \E k \in 1..MaxBatch, m \in 0..MaxBatch :
          /\ Len(documents) + k <= MaxDocs
          /\ AddCall(BatchDocs(k), BatchMetas(m))
    \/ AddConnect
    \/ AddEmbed
    \/ AddAcquire
    \/ AddExecRow
    \/ AddCommit
    \/ AddReturn

InitIngest ==
    /\ InitStore
    /\ QueryIdle
    /\ AddIdle
    /\ ThreadsIdle
    /\ SplitterIdle
    /\ MetadataIdle
    /\ CompletionIdle
    /\ ConnectIdle
    /\ KeysIdle
    /\ CacheNew(DEFAULT_MAX_SIZE, DEFAULT_TTL_SECONDS)

SpecIngest == InitIngest /\ [][NextIngest]_vars

(***************************************************************************)
(* The cache on its own                                                    *)
(***************************************************************************)
NextCache ==
    \/ \E L \in Lookups : Get(L)
    \/ \E L \in Lookups, v \in Values : v = calls + 1 /\ Set(L, v)
    \/ Clear
    \/ Tick

InitCache ==
    /\ InitStore
    /\ QueryIdle
    /\ AddIdle
    /\ ThreadsIdle
    /\ SplitterIdle
    /\ MetadataIdle
    /\ CompletionIdle
    /\ ConnectIdle
    /\ KeysIdle
    /\ \E size \in 0..MaxSize, ttl \in Ttls : CacheNew(size, ttl)

SpecCache == InitCache /\ [][NextCache]_vars

(***************************************************************************)
(* The cache shared by threads                                             *)
(***************************************************************************)
InitThreads ==
    /\ InitStore
    /\ QueryIdle
    /\ AddIdle
    /\ ThreadsIdle
    /\ SplitterIdle
    /\ MetadataIdle
    /\ CompletionIdle
    /\ ConnectIdle
    /\ KeysIdle
    /\ \E size \in 0..MaxSize, ttl \in Ttls : CacheNew(size, ttl)

SpecThreads == InitThreads /\ [][NextThreads]_vars

(***************************************************************************)
(* The splitter on its own                                                 *)
(***************************************************************************)
InitSplitter ==
    /\ InitStore
    /\ QueryIdle
    /\ AddIdle
    /\ ThreadsIdle
    /\ SplitterIdle
    /\ MetadataIdle
    /\ CompletionIdle
    /\ ConnectIdle
    /\ KeysIdle
    /\ CacheNew(DEFAULT_MAX_SIZE, DEFAULT_TTL_SECONDS)

SpecSplitter == InitSplitter /\ [][NextSplitter]_vars

(***************************************************************************)
(* The metadata extractor on its own                                       *)
(***************************************************************************)
InitMetadata ==
    /\ InitStore
    /\ QueryIdle
    /\ AddIdle
    /\ ThreadsIdle
    /\ SplitterIdle
    /\ MetadataIdle
    /\ CompletionIdle
    /\ ConnectIdle
    /\ KeysIdle
    /\ CacheNew(DEFAULT_MAX_SIZE, DEFAULT_TTL_SECONDS)

SpecMetadata == InitMetadata /\ [][NextMetadata]_vars

(***************************************************************************)
(* Concurrent callers of generate_completion_response                      *)
(***************************************************************************)
InitCompletion ==
    /\ InitStore
    /\ QueryIdle
    /\ AddIdle
    /\ ThreadsIdle
    /\ SplitterIdle
    /\ MetadataIdle
    /\ CompletionIdle
    /\ ConnectIdle
    /\ KeysIdle
    /\ \E size \in 0..MaxSize, ttl \in Ttls : CacheNew(size, ttl)

SpecCompletion == InitCompletion /\ [][NextCompletion]_vars

(***************************************************************************)
(* Concurrent callers of DatabaseService.connect                           *)
(***************************************************************************)
InitConnect ==
    /\ InitStore
    /\ QueryIdle
    /\ AddIdle
    /\ ThreadsIdle
    /\ SplitterIdle
    /\ MetadataIdle
    /\ CompletionIdle
    /\ ConnectIdle
    /\ KeysIdle
    /\ CacheNew(DEFAULT_MAX_SIZE, DEFAULT_TTL_SECONDS)

SpecConnect == InitConnect /\ [][NextConnect]_vars

(***************************************************************************)
(* Two conversations on one cache                                          *)
(***************************************************************************)
InitKeys ==
    /\ InitStore
    /\ QueryIdle
    /\ AddIdle
    /\ ThreadsIdle
    /\ SplitterIdle
    /\ MetadataIdle
    /\ CompletionIdle
    /\ ConnectIdle
    /\ KeysIdle
    /\ CacheNew(DEFAULT_MAX_SIZE, DEFAULT_TTL_SECONDS)

SpecKeys == InitKeys /\ [][NextKeys]_vars

(***************************************************************************)
(* The fusion on legs of full length                                       *)
(***************************************************************************)
InitFusion ==
    /\ InitStore
    /\ QueryIdle
    /\ AddIdle
    /\ ThreadsIdle
    /\ SplitterIdle
    /\ MetadataIdle
    /\ CompletionIdle
    /\ ConnectIdle
    /\ KeysIdle
    /\ CacheNew(DEFAULT_MAX_SIZE, DEFAULT_TTL_SECONDS)

SpecFusion == InitFusion /\ [][NextFusion]_vars

(***************************************************************************)
(* Claim about RAGService.add_documents                                    *)
(***************************************************************************)
\* the rows of the whole batch, for lists of the same length
BatchRows == [i \in 1..Len(a_docs) |-> [content |-> a_docs[i], metadata |-> a_metas[i]]]

IdsOf(rows) == {rows[i].id : i \in 1..Len(rows)}

PosIn(rows, id) ==
    IF id \in IdsOf(rows) THEN CHOOSE i \in 1..Len(rows) : rows[i].id = id ELSE 0

\* the fused score the specification gives a candidate: the sum over the legs
\* holding it of 1/(60 + rank + 1), rank 0-based, as the fraction num/den
FusedScore(id) ==
    LET v == PosIn(vector_rows, id)
        k == PosIn(keyword_rows, id)
    IN  IF v > 0 /\ k > 0 THEN [num |-> (60 + v) + (60 + k), den |-> (60 + v) * (60 + k)]
        ELSE IF v > 0 THEN [num |-> 1, den |-> 60 + v]
        ELSE IF k > 0 THEN [num |-> 1, den |-> 60 + k]
        ELSE [num |-> 0, den |-> 1]

FusedGE(a, b) == FusedScore(a).num * FusedScore(b).den >= FusedScore(b).num * FusedScore(a).den

QuerySucceeded == q_pc = "done" /\ q_fail = "none"

\* semantic ranking [X, Y] and lexical ranking [Y, Z], X, Y, Z distinct, n_results >= 3
ExampleXYZ ==
    /\ Len(vector_rows) = 2 /\ Len(keyword_rows) = 2
    /\ vector_rows[2].id = keyword_rows[1].id
    /\ vector_rows[1].id # keyword_rows[2].id
    /\ q_n >= 3

\* C1: query returns the contents of the candidates by non-increasing fused RRF
\* score, truncated to n_results, each document id at most once; semantic [X, Y]
\* with lexical [Y, Z] gives [Y, X, Z].
C1_RrfOrder ==
    QuerySucceeded =>
        LET cand == IdsOf(vector_rows) \cup IdsOf(keyword_rows)
            n == Len(q_ids)
        IN  /\ n = Min(q_n, Cardinality(cand))
            /\ Len(q_result) = n
            /\ \A i \in 1..n : q_ids[i] \in cand /\ q_result[i] = documents[q_ids[i]].content
            /\ \A i, j \in 1..n : i # j => q_ids[i] # q_ids[j]
            /\ \A i, j \in 1..n : i < j => FusedGE(q_ids[i], q_ids[j])
            /\ \A c \in cand \ Range(q_ids) : \A i \in 1..n : FusedGE(q_ids[i], c)
            /\ ExampleXYZ =>
                   q_ids = <<keyword_rows[1].id, vector_rows[1].id, keyword_rows[2].id>>

C1_Witness ==
    /\ QuerySucceeded /\ ExampleXYZ
    /\ q_ids = <<keyword_rows[1].id, vector_rows[1].id, keyword_rows[2].id>>

\* C2: query never raises; at every failure point of the read path (embedding,
\* pool connect, acquire, semantic fetch, lexical fetch) it returns the empty
\* list, also when the semantic leg had already succeeded.
C2_QueryNeverRaises ==
    /\ q_outcome # "raised"
    /\ (q_pc = "done" /\ q_fail # "none") => (q_outcome = "returned" /\ q_result = <<>>)

C2_Witness ==
    /\ q_pc = "done" /\ q_fail = "keyword"
    /\ Len(vector_rows) > 0
    /\ q_outcome = "returned" /\ q_result = <<>>

\* a valid identifier: only alphanumerics and underscores, at least one alphanumeric
ValidIdentifier(key) ==
    /\ \A i \in 1..Len(key) : key[i] \in AlnumChars \cup {"_"}
    /\ \E i \in 1..Len(key) : key[i] \in AlnumChars

\* the document satisfies the pair: its metadata carries the key with exactly that value
Satisfies(doc, p) == p.key \in DOMAIN doc.metadata /\ doc.metadata[p.key] = p.value

AllKeysValid(F) == \A i \in 1..Len(F) : ValidIdentifier(F[i].key)

\* C3: with a filter whose keys are all valid identifiers, every passage returned
\* (and every row of either leg) is of a document whose metadata equals the
\* filter value on every filter key; a filter no document matches yields the
\* empty list without error.
C3_FilterRespected ==
    (q_pc = "done" /\ AllKeysValid(q_filter)) =>
        /\ \A id \in IdsOf(vector_rows) \cup IdsOf(keyword_rows) \cup Range(q_ids) :
              \A i \in 1..Len(q_filter) : Satisfies(documents[id], q_filter[i])
        /\ Len(q_result) = Len(q_ids)
        /\ \A i \in 1..Len(q_ids) : q_result[i] = documents[q_ids[i]].content
        /\ (\A d \in 1..Len(documents) :
                \E i \in 1..Len(q_filter) : ~Satisfies(documents[d], q_filter[i]))
              => (q_result = <<>> /\ q_outcome = "returned")

\* a two-key filter, a passage found by the lexical leg alone
C3_Witness ==
    /\ QuerySucceeded
    /\ Len(q_filter) = 2 /\ AllKeysValid(q_filter)
    /\ \E i \in 1..Len(q_ids) : q_ids[i] \notin IdsOf(vector_rows)

\* F without its invalid keys
StripInvalid(F) == SelectSeq(F, LAMBDA p : ValidIdentifier(p.key))

\* the documents that satisfy every valid-key pair of F
MatchSet(F) ==
    {d \in 1..Len(documents) :
        \A i \in 1..Len(StripInvalid(F)) : Satisfies(documents[d], StripInvalid(F)[i])}

SomeKeyInvalid(F) == \E i \in 1..Len(F) : ~ValidIdentifier(F[i].key)

ValueOf(F, key) == F[CHOOSE i \in 1..Len(F) : F[i].key = key].value

\* C4: an invalid filter key is dropped and the query still runs as the query
\* with F' (F without its invalid keys) does: the statement is valid, every
\* remaining clause's placeholder resolves to its own value, both legs range
\* over exactly the documents matching F' (all documents when every key is
\* invalid), and the result is the fusion of those rows.
C4_InvalidKeysDropped ==
    SomeKeyInvalid(q_filter) =>
        LET stripped == BuildFilter(StripInvalid(q_filter))
            limit == q_n * 2
        IN  /\ q_fail # "sql"
            /\ q_pc \in {"acquire", "vector", "keyword"} =>
                  /\ \A j \in 1..Len(filter_clause) :
                        /\ filter_clause[j].idx \in 3..Len(QueryArgs(filter_params))
                        /\ QueryArgs(filter_params)[filter_clause[j].idx]
                               = ValueOf(q_filter, filter_clause[j].key)
                  /\ VectorOutcomes(documents, filter_clause, QueryArgs(filter_params), limit)
                        = VectorOutcomes(documents, stripped.clauses,
                                         QueryArgs(stripped.params), limit)
                  /\ KeywordOutcomes(documents, filter_clause, QueryArgs(filter_params), limit)
                        = KeywordOutcomes(documents, stripped.clauses,
                                          QueryArgs(stripped.params), limit)
            /\ (q_pc = "keyword" \/ (q_pc = "done" /\ q_fail \in {"none", "keyword"})) =>
                  /\ IdsOf(vector_rows) \subseteq MatchSet(q_filter)
                  /\ Len(vector_rows) <= limit
            /\ QuerySucceeded =>
                  /\ IdsOf(keyword_rows) \subseteq MatchSet(q_filter)
                  /\ (StripInvalid(q_filter) = <<>> => MatchSet(q_filter) = 1..Len(documents))
                  /\ q_ids = [i \in 1..Len(q_ids) |-> Fuse(vector_rows, keyword_rows, q_n)[i].id]

\* an invalid key before a valid one, and a passage came back
C4_Witness ==
    /\ QuerySucceeded
    /\ Len(q_filter) = 2
    /\ ~ValidIdentifier(q_filter[1].key) /\ ValidIdentifier(q_filter[2].key)
    /\ Len(q_result) > 0

(***************************************************************************)
(* Claims about LRUCache                                                   *)
(***************************************************************************)
\* this step is the call get(L) / set(L, ..)
IsGet(L) == calls' = calls + 1 /\ c_last'.op = "get" /\ c_last'.lookup = L

IsSet(L) == calls' = calls + 1 /\ c_last'.op = "set" /\ c_last'.lookup = L

\* where lookup L stands in the history of live sets, 0 if it was never set or
\* has been overwritten, evicted, expired or cleared since
LiveIndex(L) ==
    IF \E i \in 1..Len(live) : live[i].lookup = L
    THEN CHOOSE i \in 1..Len(live) : live[i].lookup = L
    ELSE 0

KeysIn(c) == {c[i].key : i \in 1..Len(c)}

\* C6: after set(L, v), a get(L) made before the entry's age exceeds
\* ttl_seconds, with no clear, eviction or overwrite of L in between, returns
\* v, adds exactly one to hits and leaves misses unchanged.
C6_SetThenGet ==
    [][\A L \in Lookups :
          (IsGet(L) /\ LiveIndex(L) # 0 /\ now - live[LiveIndex(L)].set_at <= ttl_seconds)
             => /\ c_last'.ret = <<live[LiveIndex(L)].value>>
                /\ stats'.hits = stats.hits + 1
                /\ stats'.misses = stats.misses]_vars

\* a hit after the clock moved, still within the TTL
C6_Witness ==
    /\ c_last.op = "get" /\ c_last.ret # <<>>
    /\ stats.hits = 1 /\ stats.misses = 0
    /\ ttl_seconds = 1 /\ now = 1
    /\ \E i \in 1..Len(live) : live[i].lookup = c_last.lookup /\ live[i].set_at = 0

\* C7: entries stored under identical messages but another model, temperature
\* or max_tokens never satisfy each other's lookups: a get returns only a
\* value that was set with exactly its model, temperature and max_tokens, and
\* is a miss if none was.
C7_ParametersSeparateEntries ==
    /\ \A L1, L2 \in Lookups : L1 # L2 => KeyOf(L1) # KeyOf(L2)
    /\ (c_last.op = "get" /\ c_last.ret # <<>>) =>
          \E i \in 1..Len(live) :
              live[i].lookup = c_last.lookup /\ <<live[i].value>> = c_last.ret

\* a miss on a lookup while entries with the same messages but another model,
\* another temperature or another max_tokens are stored and fresh
C7_Witness ==
    /\ c_last.op = "get" /\ c_last.ret = <<>>
    /\ stats.expirations = 0 /\ stats.misses = 1
    /\ Len(cache) >= 2
    /\ \A i \in 1..Len(cache) :
          /\ cache[i].by.messages = c_last.lookup.messages
          /\ cache[i].by # c_last.lookup
          /\ ~Expired(cache[i], now, ttl_seconds)

\* C8: a get on a key whose entry is older than ttl_seconds returns None,
\* removes that entry (size decreases by one), adds one to misses and to
\* expirations and leaves hits unchanged; the other entries are neither removed
\* nor reordered.
C8_ExpiredIsMiss ==
    [][\A L \in Lookups :
          (IsGet(L) /\ LiveIndex(L) # 0 /\ now - live[LiveIndex(L)].set_at > ttl_seconds)
             => /\ c_last'.ret = <<>>
                /\ Len(cache') = Len(cache) - 1
                /\ cache' = SelectSeq(cache, LAMBDA e : e.key # KeyOf(L))
                /\ stats' = [stats EXCEPT !.misses = @ + 1, !.expirations = @ + 1]]_vars

\* an expired entry was read and removed, another entry stays
C8_Witness ==
    /\ c_last.op = "get" /\ c_last.ret = <<>>
    /\ stats.expirations = 1 /\ stats.misses = 1 /\ stats.hits = 0
    /\ Len(cache) = 1 /\ cache[1].by # c_last.lookup

\* C9: when set inserts a new key while the cache holds max_size >= 1 entries,
\* exactly one entry is removed, the one least recently set or hit; every other
\* entry stays with its value and evictions grows by exactly one.
C9_EvictsLeastRecentlyUsed ==
    [][\A L \in Lookups :
          (/\ IsSet(L)
           /\ KeyOf(L) \notin KeysIn(cache)
           /\ max_size >= 1 /\ Len(cache) = max_size
           /\ Len(live) >= 1)
             => LET victim == KeyOf(live[1].lookup)
                IN  /\ KeysIn(cache') = (KeysIn(cache) \ {victim}) \cup {KeyOf(L)}
                    /\ victim \in KeysIn(cache)
                    /\ Len(cache') = Len(cache)
                    /\ \A i \in 1..Len(cache) :
                          cache[i].key # victim =>
                              \E j \in 1..Len(cache') :
                                  /\ cache'[j].key = cache[i].key
                                  /\ cache'[j].value = cache[i].value
                    /\ stats'.evictions = stats.evictions + 1
                    /\ c_last'.raised = ""]_vars

\* max_size = 2 after set(a), set(b), get(a), set(c): the values of the first
\* and the fourth call are stored, b (the second call's) is gone
C9_Witness ==
    /\ max_size = 2 /\ calls = 4
    /\ stats.hits = 1 /\ stats.evictions = 1
    /\ c_last.op = "set"
    /\ Len(cache) = 2
    /\ cache[1].value = 1 /\ cache[1].hits = 1
    /\ cache[2].value = 4

\* C10: with max_size >= 1 the number of stored entries (stats size) is never
\* above max_size.
C10_SizeBounded == max_size >= 1 => StatsView.size <= max_size

\* a full cache that has already evicted
C10_Witness ==
    /\ max_size >= 1
    /\ StatsView.size = max_size
    /\ stats.evictions >= 1

\* C11: every cache operation is total: for every max_size and ttl_seconds the
\* constructor accepts and in every reachable state, get, set, clear and stats
\* complete without raising.
C11_CacheTotal == c_last.raised = ""

\* no thread is inside a cache call
Quiescent == \A t \in Threads : th[t].pc = "idle"

\* C12: under any interleaving of get, set, clear and stats calls made by
\* several threads, every call runs its whole read-modify-write inside the one
\* lock: at most one thread is inside a call, the value each call returns and,
\* whenever no call is running, the entry map and the counters are those of
\* the calls run one after the other in the order they released the lock.
C12_CallsSerialize ==
    /\ Cardinality({t \in Threads : th[t].pc # "idle"}) <= 1
    /\ c_last.ret = ser.ret
    /\ c_last.raised = ser.raised
    /\ Quiescent => /\ cache = ser.cache
                    /\ stats = ser.stats

\* a thread holds the lock between the eviction and the insertion of its set,
\* after a call that counted a miss
C12_Witness ==
    /\ \E t \in Threads : th[t].pc = "set_insert" /\ lock = t
    /\ stats.evictions = 1
    /\ stats.misses = 1
    /\ Len(cache) < max_size

(***************************************************************************)
(* Claims about RecursiveTokenSplitter                                     *)
(***************************************************************************)
\* C13: every chunk split_text returns has at most chunk_size tokens, chunks
\* seeded with the overlap tail of the previous chunk and chunks merged from
\* nested output included; only the last window of a forced token-level split
\* is excepted.  A forced split needs a single character of at least
\* chunk_size tokens, so with chunk_size > 1 no chunk is excepted here.
C13_ChunksWithinBudget ==
    (sp_returned /\ chunk_size > 1) =>
        \A i \in 1..Len(sp_chunks) : Length(sp_chunks[i]) <= chunk_size

\* C14: a text that is not whitespace-only and has fewer than chunk_size
\* tokens comes back as exactly one chunk, the text stripped, whichever
\* separators it contains.
C14_ShortTextOneChunk ==
    (sp_returned /\ Strip(sp_text) # <<>> /\ Length(sp_text) < chunk_size) =>
        sp_chunks = <<Strip(sp_text)>>

NonWhitespace(text) == SelectSeq(text, LAMBDA c : c \notin WhitespaceChars)

\* a occurs in b, in order
RECURSIVE IsSubsequence(_, _)
IsSubsequence(a, b) ==
    IF a = <<>> THEN TRUE
    ELSE IF b = <<>> THEN FALSE
    ELSE IF a[1] = b[1] THEN IsSubsequence(Tail(a), Tail(b))
    ELSE IsSubsequence(a, Tail(b))

\* C15: split_text loses no content: the non-whitespace characters of the
\* text occur, in their order, in the chunks put end to end (disregarding the
\* overlap copies only takes characters away from the chunks, so they occur
\* in the chunks as returned), and no chunk is empty or whitespace-only.
C15_NoContentLost ==
    sp_returned =>
        /\ IsSubsequence(NonWhitespace(sp_text), NonWhitespace(Join(sp_chunks)))
        /\ \A i \in 1..Len(sp_chunks) : Strip(sp_chunks[i]) # <<>>

HasContext ==
    \/ KeywordMatch(NormName(Lower(md_filename))).matched
    \/ md_meta.type # <<>>
    \/ md_meta.authority # <<>>

\* the digits a filename made of digits, a period and letters starts with;
\* <<>> for any other filename
BareDigits(filename) ==
    LET digits == DigitsFrom(filename, 1)
        k == Len(digits)
    IN  IF /\ k >= 1
           /\ k + 2 <= Len(filename)
           /\ filename[k + 1] = "."
           /\ \A j \in (k + 2)..Len(filename) :
                 filename[j] \in Range(LowerLetters) \cup Range(UpperLetters)
        THEN digits
        ELSE <<>>

\* no type pattern, authority, numbering keyword or year occurs in the filename
NoLegalSignal(filename) ==
    /\ DetectType(NormName(Lower(filename))) = <<>>
    /\ DetectAuthority(NormName(Lower(filename))) = <<>>
    /\ ~KeywordMatch(NormName(Lower(filename))).matched
    /\ DetectYear(Lower(filename)) = <<>>

\* four digits that read as a year 19xx or 20xx
IsYear(digits) ==
    Len(digits) = 4 /\ SubSeq(digits, 1, 2) \in {<<"1", "9">>, <<"2", "0">>}

\* C17: extract_legal_metadata never raises; its result has number only if a
\* numbering keyword followed by digits was found or a type or an authority
\* was detected; a filename of digits and an extension with no such context,
\* a filename with no legal signal and the empty filename all yield the empty
\* mapping.
C17_BareDigitsYieldNothing ==
    md_returned =>
        /\ md_meta.number # <<>> => HasContext
        /\ (BareDigits(md_filename) # <<>> /\ ~HasContext) => md_meta = EmptyMeta
        /\ NoLegalSignal(md_filename) => md_meta = EmptyMeta
        /\ md_filename = <<>> => md_meta = EmptyMeta

\* C17, amended: as above, but a filename of digits and an extension with no
\* context yields a mapping without number, type and authority; it is empty
\* unless the digits read as a year 19xx or 20xx, which is then its year.
C17_BareDigitsYieldNoNumber ==
    md_returned =>
        /\ md_meta.number # <<>> => HasContext
        /\ (BareDigits(md_filename) # <<>> /\ ~HasContext) =>
              /\ md_meta.number = <<>>
              /\ md_meta.type = <<>>
              /\ md_meta.authority = <<>>
              /\ md_meta.year = IF IsYear(BareDigits(md_filename))
                                THEN <<ParseInt(BareDigits(md_filename))>>
                                ELSE <<>>
        /\ NoLegalSignal(md_filename) => md_meta = EmptyMeta
        /\ md_filename = <<>> => md_meta = EmptyMeta

\* "123456.pdf" came back as the empty mapping
C17_Witness ==
    /\ md_returned
    /\ md_filename = <<"1", "2", "3", "4", "5", "6", ".", "p", "d", "f">>
    /\ md_meta = EmptyMeta

\* the labels of the type patterns as they are meant to read, in the order of
\* the patterns
CanonicalLabels ==
    << <<"S", "u_acute", "m", "u", "l", "a">>,
       <<"L", "e", "i", " ", "C", "o", "m", "p", "l", "e", "m", "e", "n", "t", "a", "r">>,
       <<"L", "e", "i", " ", "C", "o", "m", "p", "l", "e", "m", "e", "n", "t", "a", "r">>,
       <<"D", "e", "c", "r", "e", "t", "o", "-", "L", "e", "i">>,
       <<"D", "e", "c", "r", "e", "t", "o", "-", "L", "e", "i">>,
       <<"D", "e", "c", "r", "e", "t", "o">>,
       <<"D", "e", "c", "r", "e", "t", "o">>,
       <<"P", "o", "r", "t", "a", "r", "i", "a">>,
       <<"R", "e", "s", "o", "l", "u", "c_cedilla", "a_tilde", "o">>,
       <<"L", "e", "i">> >>

\* the first type pattern that occurs in the normalised filename, 0 if none
FirstPattern(filename) ==
    LET found == {i \in 1..Len(TypePatterns) :
                     PatternFound(NormName(Lower(filename)), TypePatterns[i])}
    IN  IF found = {} THEN 0 ELSE CHOOSE i \in found : \A j \in found : i <= j

\* C18: type is the canonical label of the first pattern, in the order from
\* specific to general, that matches the normalised filename, and the
\* filenames of the authors' table yield the expected fields.
C18_TypeByFirstPattern ==
    md_returned =>
        /\ FirstPattern(md_filename) # 0 =>
              md_meta.type = CanonicalLabels[FirstPattern(md_filename)]
        /\ md_filename = <<"A", "G", "U", " ", "(", "L", "C", " ", "7", "3", " ", "d", "e", " ", "1", "9", "9", "3", ")", ".", "d", "o", "c", "x">> =>
              /\ md_meta.type = <<"L", "e", "i", " ", "C", "o", "m", "p", "l", "e", "m", "e", "n", "t", "a", "r">>
              /\ md_meta.number = <<"7", "3">>
              /\ md_meta.year = <<1993>>
              /\ md_meta.authority = <<"A", "G", "U">>
        /\ md_filename = <<"S", "u_acute", "m", "u", "l", "a", "s", " ", "S", "T", "F", " ", "a", "t", "u", "a", "l", "i", "z", "a", "d", "o", ".", "d", "o", "c", "x">> =>
              /\ md_meta.type = <<"S", "u_acute", "m", "u", "l", "a">>
              /\ md_meta.authority = <<"S", "T", "F">>
        /\ md_filename = <<"L", "e", "i", " ", "8", "6", "6", "6", ".", "d", "o", "c", "x">> =>
              /\ md_meta.type = <<"L", "e", "i">>
              /\ md_meta.number = <<"8", "6", "6", "6">>
        /\ md_filename = <<"L", "C", "_", "7", "3", ".", "p", "d", "f">> =>
              /\ md_meta.type = <<"L", "e", "i", " ", "C", "o", "m", "p", "l", "e", "m", "e", "n", "t", "a", "r">>
              /\ md_meta.number = <<"7", "3">>

(***************************************************************************)
(* More claims about LRUCache                                              *)
(***************************************************************************)
\* C19: set on a key that is present acts as a fresh insertion of that key:
\* the value is replaced, created_at is the time of the set, the entry's hits
\* are 0 and the entry is the most recently used; the number of entries, the
\* counters and the other entries, in their order, are unchanged, even when
\* the cache is at max_size.
C19_OverwriteIsFreshInsert ==
    [][\A L \in Lookups :
          (IsSet(L) /\ KeyOf(L) \in KeysIn(cache))
             => LET i == IndexOfKey(cache, KeyOf(L))
                    last == cache'[Len(cache')]
                IN  /\ Len(cache') = Len(cache)
                    /\ last.key = KeyOf(L)
                    /\ last.value = calls'
                    /\ last.created_at = now
                    /\ last.hits = 0
                    /\ SubSeq(cache', 1, Len(cache') - 1) = RemoveAt(cache, i)
                    /\ stats' = stats
                    /\ c_last'.raised = ""]_vars

\* a full cache of two entries whose older entry, hit once, was set again after
\* the clock moved: it is now the newer one, with no hit and no eviction
C19_Witness ==
    /\ max_size = 2 /\ Len(cache) = 2 /\ calls = 4
    /\ c_last.op = "set"
    /\ stats.hits = 1 /\ stats.evictions = 0
    /\ cache[1].value = 2 /\ cache[1].hits = 0
    /\ cache[2].value = 4 /\ cache[2].hits = 0
    /\ cache[2].created_at = now /\ now >= 1

(***************************************************************************)
(* Claim about concurrent callers of generate_completion_response          *)
(***************************************************************************)
\* the caller is between its get and its set, waiting on an await
Generating(t) == co[t].pc \in {"rag", "create", "second"}

\* C20: the cache lock is never held while a caller is generating, and nothing
\* keeps two callers with the same cache key from both generating; once two
\* callers with the same key have both stored their result the cache holds
\* exactly one entry for that key and its value is the one of the later set.
C20_BothStoreLaterWins ==
    /\ \A t \in Callers : Generating(t) => lock = 0
    /\ \A t, u \in Callers :
          (t # u /\ co[t].stored /\ co[u].stored
             /\ KeyOf(co[t].lookup) = KeyOf(co[u].lookup))
          => LET K == KeyOf(co[t].lookup)
                 later == co_sets[Len(co_sets)]
             IN  /\ Len(co_sets) = 2
                 /\ later.key = K
                 /\ Cardinality({i \in 1..Len(cache) : cache[i].key = K}) = 1
                 /\ cache[IndexOfKey(cache, K)].value = later.value
                 /\ co[later.caller].reply = <<later.value>>

\* two callers with the same key both missed while the key was absent (two
\* misses, nothing expired, evicted or cleared), both invoked the model, both
\* stored: the cache holds the second completion only
C20_Witness ==
    /\ co[1].pc = "returned" /\ co[2].pc = "returned"
    /\ co[1].lookup = co[2].lookup
    /\ co[1].stored /\ co[2].stored
    /\ ~co[1].from_cache /\ ~co[2].from_cache
    /\ co[1].invoked = 1 /\ co[2].invoked = 1
    /\ co_n = 2
    /\ stats = [hits |-> 0, misses |-> 2, evictions |-> 0, expirations |-> 0]
    /\ Len(co_sets) = 2 /\ co_sets[1].value = 1 /\ co_sets[2].value = 2
    /\ co[co_sets[1].caller].reply = <<1>>
    /\ Len(cache) = 1 /\ cache[1].value = 2

(***************************************************************************)
(* Claims about ties in the fusion                                         *)
(***************************************************************************)
\* the place of a candidate in discovery order: the semantic leg by rank, then
\* the candidates only the lexical leg found, by rank
Discovery(id) ==
    IF PosIn(vector_rows, id) > 0 THEN PosIn(vector_rows, id)
    ELSE Len(vector_rows) + PosIn(keyword_rows, id)

\* a precedes b: greater fused score, or equal score and discovered earlier
Precedes(a, b) ==
    \/ ~FusedGE(b, a)
    \/ FusedGE(a, b) /\ FusedGE(b, a) /\ Discovery(a) < Discovery(b)

\* C21: among candidates of equal fused score those of the semantic leg come
\* first, in semantic rank order, then those only the lexical leg found, in
\* lexical rank order; the output is a function of the two leg rankings: its
\* p-th element is the candidate that exactly p - 1 candidates precede.
C21_TiesByDiscovery ==
    QuerySucceeded =>
        LET cand == IdsOf(vector_rows) \cup IdsOf(keyword_rows)
        IN  \A p \in 1..Len(q_ids) :
               Cardinality({c \in cand : Precedes(c, q_ids[p])}) = p - 1

\* a semantic-only document at rank 0 and a lexical-only document at rank 0 tie,
\* the lexical one has the smaller id and n_results is 1: the semantic one is
\* the document returned
C21_Witness ==
    /\ QuerySucceeded
    /\ q_n = 1
    /\ Len(vector_rows) = 2 /\ Len(keyword_rows) = 1
    /\ PosIn(vector_rows, keyword_rows[1].id) = 0
    /\ PosIn(keyword_rows, vector_rows[1].id) = 0
    /\ vector_rows[1].id > keyword_rows[1].id
    /\ q_ids = <<vector_rows[1].id>>

(***************************************************************************)
(* Claim about a word without separators                                   *)
(***************************************************************************)
\* the text holds none of the separators "\n\n", "\n", "." and " "
NoSeparator(text) == \A i \in 1..Len(text) : text[i] \notin {"\n", ".", " "}

\* C22: a text without paragraph break, line break, period or space that has at
\* least chunk_size tokens is returned as the windows of chunk_size tokens taken
\* every chunk_size - chunk_overlap tokens.
C22_OversizedWordForced ==
    (sp_returned /\ NoSeparator(sp_text) /\ Length(sp_text) >= chunk_size) =>
        sp_chunks = ForceSplit(sp_text)

(***************************************************************************)
(* Claim about the year                                                    *)
(***************************************************************************)
\* the positions of the filename where four characters read 19dd or 20dd
YearPositions(filename) ==
    {k \in 1..(Len(filename) - 3) :
        /\ SubSeq(filename, k, k + 1) \in {<<"1", "9">>, <<"2", "0">>}
        /\ filename[k + 2] \in DigitChars
        /\ filename[k + 3] \in DigitChars}

\* C23: year is set exactly when the filename holds four characters 19dd or
\* 20dd anywhere, whatever surrounds them, and is the first such substring read
\* as an integer.
C23_YearAnywhere ==
    md_returned =>
        LET at == YearPositions(md_filename)
        IN  IF at = {} THEN md_meta.year = <<>>
            ELSE LET k == CHOOSE k \in at : \A j \in at : k <= j
                 IN  md_meta.year = <<ParseInt(SubSeq(md_filename, k, k + 3))>>

(***************************************************************************)
(* Claim about what generate_completion_response writes to the cache       *)
(***************************************************************************)
\* the entries of the cache without their hit counts and their order
Entries(c) ==
    {[key |-> c[i].key, value |-> c[i].value, created_at |-> c[i].created_at] :
        i \in 1..Len(c)}

\* the caller used tool calls and got its second completion
UsedTools(c) == c.status = "OK" /\ c.invoked = 2

\* C24 as stated: a call that ends with an error status (TOO_LONG,
\* INVALID_REQUEST, RATE_LIMIT, OTHER_ERROR) or with a response made through
\* tool calls has left the entries of the cache unchanged: it has neither
\* stored nor removed an entry.
C24_FailedCallLeavesEntries ==
    \A t \in Callers :
        (co[t].pc = "returned" /\ (co[t].status \in Failures \/ UsedTools(co[t])))
        => ~co[t].stored /\ ~co[t].dropped

\* C24, amended: an entry is added or replaced only by the step of a caller
\* that missed and whose first completion succeeded without tool calls; the
\* step in which a caller returns an error status or a response made through
\* tool calls leaves the cache as it is; the only other change a call makes to
\* the entries is the removal of its key's expired entry by the lookup that
\* misses; a hit returns the cached value in the step of the call itself,
\* without retrieval and without a model call.
C24_StoredOnlyOnPlainSuccess ==
    [][\A t \in Callers :
          LET returns == co[t].pc # "returned" /\ co'[t].pc = "returned"
              moved == co'[t] # co[t]
              K == KeyOf(co'[t].lookup)
          IN  /\ (returns /\ (co'[t].status \in Failures \/ UsedTools(co'[t])))
                    => cache' = cache
              /\ (returns /\ co'[t].from_cache)
                    => /\ co[t].pc = "idle"
                       /\ co_n' = co_n
                       /\ co'[t].invoked = 0
                       /\ co'[t].status = "OK"
                       /\ co'[t].reply = <<cache[IndexOfKey(cache, K)].value>>
                       /\ Entries(cache') = Entries(cache)
              /\ (moved /\ ~(Entries(cache') \subseteq Entries(cache)))
                    => /\ co[t].pc = "create"
                       /\ co'[t].stored /\ co'[t].status = "OK"
                       /\ ~co'[t].from_cache /\ co'[t].invoked = 1
              /\ (moved /\ Entries(cache') # Entries(cache)
                        /\ Entries(cache') \subseteq Entries(cache))
                    => /\ co[t].pc = "idle" /\ co'[t].pc = "rag" /\ co'[t].dropped
                       /\ \A e \in Entries(cache) \ Entries(cache') : e.key = K]_vars

\* a caller's lookup removed the expired entry of its key, the model call then
\* failed on the rate limit: it returned the error and the cache stayed empty
C24_Witness ==
    \E t \in Callers :
        /\ co[t].pc = "returned" /\ co[t].status = "RATE_LIMIT"
        /\ co[t].dropped /\ ~co[t].stored
        /\ stats.expirations = 1
        /\ Len(co_sets) = 1
        /\ cache = <<>>

(***************************************************************************)
(* Claim about DatabaseService.connect                                     *)
(***************************************************************************)
\* the step is a connect call
IsConnectCall == cn_calls' = cn_calls + 1

\* C25: whatever the interleaving of connect calls, with no close, the pool is
\* created at most once; a call that finds a pool returns without creating
\* one; a caller that passed the unlocked check and waited for the lock looks
\* again under the lock and returns without creating when the pool is there;
\* a creation that fails leaves the pool unset, raises and frees the lock, and
\* a later call tries again.
C25_PoolCreatedOnce ==
    [][/\ cn_created' <= 1
       /\ (pool' = "open") <=> (cn_created' = 1)
       /\ \A t \in Connectors : cn'[t].pc = "creating" <=> connect_lock' = t
       /\ (IsConnectCall /\ pool = "open")
             => /\ cn_attempts' = cn_attempts
                /\ connect_lock' = connect_lock
                /\ \A t \in Connectors : cn'[t].pc = cn[t].pc
                /\ \E t \in Connectors : cn'[t].outcome = "returned" /\ ~cn'[t].created
       /\ (IsConnectCall /\ pool = "none" /\ connect_lock = 0)
             => cn_attempts' = cn_attempts + 1
       /\ \A t \in Connectors :
             /\ (cn[t].pc = "waiting" /\ cn'[t].pc # "waiting" /\ pool = "open")
                   => /\ cn'[t].pc = "idle" /\ cn'[t].outcome = "returned"
                      /\ ~cn'[t].created
                      /\ cn_attempts' = cn_attempts /\ connect_lock' = 0
             /\ (cn[t].pc = "creating" /\ cn'[t].pc # "creating")
                   => /\ connect_lock' = 0
                      /\ \/ cn'[t].outcome = "returned" /\ cn'[t].created
                            /\ pool = "none" /\ pool' = "open"
                         \/ cn'[t].outcome = "raised" /\ pool' = "none"]_vars

\* the first creation failed and its caller raised; a later caller created the
\* pool while another waited for the lock, looked again and returned
C25_Witness ==
    \E t, u, w \in Connectors :
        /\ cn[t].outcome = "raised" /\ cn[t].pc = "idle"
        /\ cn[u].outcome = "returned" /\ cn[u].created
        /\ cn[w].outcome = "returned" /\ ~cn[w].created /\ cn[w].waited
        /\ pool = "open" /\ cn_created = 1 /\ cn_attempts = 2 /\ cn_calls = 3

(***************************************************************************)
(* Claims about the conversations behind a cache key                       *)
(***************************************************************************)
\* the last five turns of a conversation, all of them if it has fewer
LastFive(messages) ==
    [i \in 1..Min(5, Len(messages)) |-> messages[Len(messages) - Min(5, Len(messages)) + i]]

SameConfig(a, b) ==
    a.model = b.model /\ a.temperature = b.temperature /\ a.max_tokens = b.max_tokens

\* C26: two conversations of any lengths whose last five turns are equal,
\* looked up with the same model, temperature and max_tokens, share one cache
\* entry: the value set under one is what get returns under the other,
\* whatever their earlier turns were.
C26_LastFiveTurnsDecide ==
    (kx.pc = "got" /\ SameConfig(kx.a, kx.b)
        /\ LastFive(kx.a.messages) = LastFive(kx.b.messages))
    => /\ c_last.ret = <<1>>
       /\ Len(cache) = 1 /\ cache[1].value = 1 /\ cache[1].hits = 1
       /\ stats.hits = 1 /\ stats.misses = 0

\* a conversation of six turns and one of five that differ in length and in
\* their first turn: the value set under the first is returned under the second
C26_Witness ==
    /\ kx.pc = "got"
    /\ Len(kx.a.messages) = 6 /\ Len(kx.b.messages) = 5
    /\ kx.a.messages[1] # kx.b.messages[1]
    /\ SameConfig(kx.a, kx.b)
    /\ c_last.ret = <<1>>

\* C27: two lookups that differ in a hashed turn's speaker or text, in the
\* number of hashed turns, or in model, temperature or max_tokens never have
\* the same key, so get under one never returns what was set under the
\* other, also when a text holds ':' or '|'.
C27_KeyInjective ==
    (kx.pc = "got"
        /\ (~SameConfig(kx.a, kx.b) \/ LastFive(kx.a.messages) # LastFive(kx.b.messages)))
    => /\ KeyOf(kx.a) # KeyOf(kx.b)
       /\ c_last.ret = <<>>

(***************************************************************************)
(* Claim about candidates of both legs                                     *)
(***************************************************************************)
InBoth(id) == PosIn(vector_rows, id) > 0 /\ PosIn(keyword_rows, id) > 0

\* the place of a document in the returned list, 0 when it is not returned
PlaceOf(id) ==
    IF \E i \in 1..Len(q_ids) : q_ids[i] = id
    THEN CHOOSE i \in 1..Len(q_ids) : q_ids[i] = id
    ELSE 0

\* C28: for n_results from 1 to 30 and legs of 2 * n_results rows, a candidate
\* of both legs has a strictly greater fused score than any candidate of one
\* leg only, the lowest sum 2/(60 + 2 * n_results) being above 1/61, and
\* comes before every candidate of one leg in the output.
C28_BothLegsFirst ==
    (q_pc = "done" /\ q_outcome = "returned" /\ q_n \in 1..DominanceLimit
        /\ Len(vector_rows) = 2 * q_n /\ Len(keyword_rows) = 2 * q_n)
    => LET cand == IdsOf(vector_rows) \cup IdsOf(keyword_rows)
       IN  /\ 2 * (RRF_K + 1) > RRF_K + 2 * q_n
           /\ \A b, s \in cand :
                 (InBoth(b) /\ ~InBoth(s)) =>
                    /\ ~FusedGE(s, b)
                    /\ (PlaceOf(s) > 0) => (PlaceOf(b) > 0 /\ PlaceOf(b) < PlaceOf(s))

\* n_results is 30 and the two candidates of both legs are the last two rows
\* of each leg: they are returned first, before the first row of a leg
C28_Witness ==
    /\ q_pc = "done" /\ q_n = 30
    /\ Len(vector_rows) = 60 /\ Len(keyword_rows) = 60
    /\ keyword_rows[59].id = 60 /\ keyword_rows[60].id = 59
    /\ Len(q_ids) = 30
    /\ q_ids[1] = 59 /\ q_ids[2] = 60 /\ q_ids[3] = 1

(***************************************************************************)
(* Claims about add_documents with lists of different lengths              *)
(***************************************************************************)
\* C29: when add_documents returns True, exactly len(documents) records were
\* inserted, one per input document in input order, each with the metadata
\* at the same index, whatever the lengths of the two input lists.
C29_OneRecordPerDocument ==
    (a_pc = "done" /\ a_ret = TRUE) =>
        /\ Len(documents) = Len(a_before) + Len(a_docs)
        /\ SubSeq(documents, 1, Len(a_before)) = a_before
        /\ \A i \in 1..Len(a_docs) :
              /\ i <= Len(a_metas)
              /\ documents[Len(a_before) + i] =
                    [content |-> a_docs[i], metadata |-> a_metas[i]]

(***************************************************************************)
(* Claims about the statistics of LRUCache                                 *)
(***************************************************************************)
IsGetCall == calls' = calls + 1 /\ c_last'.op = "get"

IsSetCall == calls' = calls + 1 /\ c_last'.op = "set"

IsClearCall == c_last'.op = "clear" /\ calls' = calls /\ now' = now

KeysStored(c) == {c[i].key : i \in 1..Len(c)}

\* the call took an entry out of the dict that the caller did not name
RemovedForCapacity ==
    IsSetCall /\ \E k \in KeysStored(cache) : k \notin KeysStored(cache')
                                              /\ k # KeyOf(c_last'.lookup)

\* C30: counted from the construction (all counters 0), every get adds one to
\* hits + misses and no other call changes hits or misses, so hits + misses is
\* the number of get calls; expirations <= misses; evictions grows by one
\* exactly in a set that removed an entry for capacity; size is the number of
\* stored keys; clear empties the cache and changes no counter.
C30_StatsAccount ==
    /\ stats = [hits |-> 0, misses |-> 0, evictions |-> 0, expirations |-> 0]
    /\ cache = <<>>
    /\ [][/\ stats'.hits + stats'.misses
                = stats.hits + stats.misses + (IF IsGetCall THEN 1 ELSE 0)
          /\ stats'.hits >= stats.hits /\ stats'.misses >= stats.misses
          /\ stats'.expirations <= stats'.misses
          /\ stats'.evictions = stats.evictions + (IF RemovedForCapacity THEN 1 ELSE 0)
          /\ Len(cache') = Cardinality(KeysStored(cache'))
          /\ IsClearCall => (Len(cache') = 0 /\ stats' = stats)]_vars

\* two sets into a cache of one entry (an eviction), a hit, an expired get and
\* then clear: the counters hold one of each and the cache is empty
C30_Witness ==
    /\ c_last.op = "clear" /\ calls = 4 /\ max_size = 1
    /\ stats = [hits |-> 1, misses |-> 1, evictions |-> 1, expirations |-> 1]
    /\ cache = <<>>

====
